---- MODULE Spec2Model ----
(***************************************************************************)
(* Domain services, unit of work and SQLAlchemy repositories of            *)
(* jdl-symphony-core (src/src/symphony).                                   *)
(*                                                                         *)
(* The committed database is the variable db: four tables of rows.  Every  *)
(* service method opens one unit-of-work scope, so one action is one whole *)
(* service call: the scope is entered on the committed store, the handler  *)
(* body runs on the session, and __aexit__ closes the session, which keeps *)
(* the session's rows only if commit() was reached.                        *)
(*                                                                         *)
(* Strings are sequences of one-character strings, so that the validators  *)
(* of the domain models are computed character by character.  UUIDs are    *)
(* positive integers; uuid4() is the counter nextId.  An optional argument *)
(* is a set: {} is None and {v} is the value v.  created_at / updated_at   *)
(* are instants of a logical clock.  The variable uow is the unit-of-work  *)
(* object a caller holds, and call is the last direct call on a domain     *)
(* model (a constructor or a method of an entity) with its outcome.  The   *)
(* variable loop is the asyncio event loop when service calls run as       *)
(* concurrent tasks: the tasks with the statement each has reached, the    *)
(* unit-of-work instances they use and the sessions these have opened.     *)
(***************************************************************************)
EXTENDS Integers, Sequences, FiniteSets, TLC

VARIABLES db, nextId, lastOp, uow, call, loop

vars == <<db, nextId, lastOp, uow, call, loop>>

(***************************************************************************)
(* Optional values                                                         *)
(***************************************************************************)
None == {}

Some(v) == {v}

IsNone(o) == o = {}

Val(o) == CHOOSE v \in o : TRUE

(***************************************************************************)
(* Characters and string helpers                                           *)
(***************************************************************************)
Letters ==
    {"a","b","c","d","e","f","g","h","i","j","k","l","m","n","o","p","q","r","s","t","u","v","w","x","y","z",
     "A","B","C","D","E","F","G","H","I","J","K","L","M","N","O","P","Q","R","S","T","U","V","W","X","Y","Z"}

Digits == {"0","1","2","3","4","5","6","7","8","9"}

Whitespace == {" ", "\t", "\n", "\r"}

isalpha(c) == c \in Letters

isalnum(c) == c \in Letters \cup Digits

Contains(s, c) == \E i \in 1..Len(s) : s[i] = c

CountChar(s, c) == Cardinality({i \in 1..Len(s) : s[i] = c})

\* str.strip() leaves the empty string exactly when every character is whitespace
IsBlank(s) == \A i \in 1..Len(s) : s[i] \in Whitespace

StartsWith(s, p) == Len(s) >= Len(p) /\ SubSeq(s, 1, Len(p)) = p

RECURSIVE LStrip(_)
LStrip(s) == IF s # <<>> /\ Head(s) \in Whitespace THEN LStrip(Tail(s)) ELSE s

RECURSIVE RStrip(_)
RStrip(s) ==
    IF s # <<>> /\ s[Len(s)] \in Whitespace THEN RStrip(SubSeq(s, 1, Len(s) - 1)) ELSE s

Strip(s) == RStrip(LStrip(s))

(***************************************************************************)
(* Program constants                                                       *)
(***************************************************************************)
MaxNameLen == 255

MinUsernameLen == 3

MaxWorkspacesPerUser == 50

MaxReposPerWorkspace == 100

MaxVaultsPerWorkspace == 20

WorkspaceTypes == {"general", "client", "personal", "research"}

(***************************************************************************)
(* Domain model validation (the dataclasses' __post_init__)                *)
(***************************************************************************)
\* validate_username without the rule on the first character
validate_username_any_first_char(username) ==
    /\ Len(username) >= MinUsernameLen
    /\ \A i \in 1..Len(username) : isalnum(username[i]) \/ username[i] = "_"

validate_username(username) ==
    /\ Len(username) >= MinUsernameLen
    /\ isalpha(username[1])
    /\ \A i \in 1..Len(username) : isalnum(username[i]) \/ username[i] = "_"

validate_email(email) ==
    /\ Contains(email, "@")
    /\ CountChar(email, "@") = 1
    /\ LET at == CHOOSE i \in 1..Len(email) : email[i] = "@"
           local == SubSeq(email, 1, at - 1)
           domain == SubSeq(email, at + 1, Len(email))
       IN  /\ local # <<>>
           /\ domain # <<>>
           /\ Contains(domain, ".")

\* a constructor that validates nothing
UserProfile_post_init_unchecked(username, email) == "ok"

\* UserProfile.__post_init__: "ok" or the ValueError it raises
UserProfile_post_init(username, email) ==
    IF ~validate_username(username) THEN "ValueError"
    ELSE IF ~validate_email(email) THEN "ValueError"
    ELSE "ok"

\* the message of the ValueError that __post_init__ raises
UserProfile_post_init_message(username, email) ==
    IF ~validate_username(username) THEN "Invalid username"
    ELSE IF ~validate_email(email) THEN "Invalid email"
    ELSE ""

\* UserProfile(username=..., email=...): the outcome, the message of the error
\* and the object, which exists only when __post_init__ returned
UserProfile_new(username, email) ==
    [res |-> UserProfile_post_init(username, email),
     msg |-> UserProfile_post_init_message(username, email),
     obj |-> IF UserProfile_post_init(username, email) = "ok"
             THEN {[username |-> username, email |-> email, preferences |-> {}]}
             ELSE {}]

Workspace_validate_name(name) ==
    /\ name # <<>>
    /\ ~IsBlank(name)
    /\ Len(name) <= MaxNameLen

\* a Workspace constructor that validates nothing
Workspace_post_init_unchecked(name, workspace_type) == "ok"

Workspace_post_init(name, workspace_type) ==
    IF ~Workspace_validate_name(name) THEN "ValueError"
    ELSE IF workspace_type \notin WorkspaceTypes THEN "ValueError"
    ELSE "ok"

InvalidNameChars == {"<", ">", ":", "\"", "|", "?", "*"}

\* Repo.validate_name and Vault.validate_name are the same rule
Resource_validate_name(name) ==
    /\ name # <<>>
    /\ ~IsBlank(name)
    /\ Len(name) <= MaxNameLen
    /\ ~Contains(name, "/")
    /\ ~Contains(name, "\\")
    /\ \A i \in 1..Len(name) : name[i] \notin InvalidNameChars

Resource_validate_path(path) ==
    /\ path # <<>>
    /\ ~IsBlank(path)

UrlPrefixes ==
    { <<"h","t","t","p",":","/","/">>, <<"h","t","t","p","s",":","/","/">>,
      <<"g","i","t",":","/","/">>, <<"s","s","h",":","/","/">>, <<"g","i","t","@">> }

Repo_validate_remote_url(remote_url) ==
    IF IsNone(remote_url) \/ Val(remote_url) = <<>> THEN TRUE
    ELSE LET url == Strip(Val(remote_url))
         IN  \/ \E p \in UrlPrefixes : StartsWith(url, p)
             \/ Contains(url, ":") /\ ~StartsWith(url, <<"/">>)

Repo_post_init(name, path, remote_url) ==
    IF ~Resource_validate_name(name) THEN "ValueError"
    ELSE IF ~Resource_validate_path(path) THEN "ValueError"
    ELSE IF ~IsNone(remote_url) /\ Val(remote_url) # <<>> /\ ~Repo_validate_remote_url(remote_url)
         THEN "ValueError"
    ELSE "ok"

\* Repo(name=..., path=..., remote_url=...): outcome, message and object
Repo_new(name, path, remote_url, now) ==
    [res |-> Repo_post_init(name, path, remote_url),
     msg |-> IF ~Resource_validate_name(name) THEN "Invalid repo name"
             ELSE IF ~Resource_validate_path(path) THEN "Invalid repo path"
             ELSE IF Repo_post_init(name, path, remote_url) # "ok" THEN "Invalid remote URL"
             ELSE "",
     obj |-> IF Repo_post_init(name, path, remote_url) = "ok"
             THEN {[name |-> name, path |-> path, remote_url |-> remote_url,
                    created_at |-> now, updated_at |-> now]}
             ELSE {}]

\* Repo.update_remote_url: a refused value is taken back before the error is
\* raised, an accepted one is kept and updated_at is set
Repo_update_remote_url(repo, remote_url, now) ==
    IF ~IsNone(remote_url) /\ Val(remote_url) # <<>> /\ ~Repo_validate_remote_url(remote_url)
    THEN [res |-> "ValueError", msg |-> "Invalid remote URL", obj |-> {repo}]
    ELSE [res |-> "ok", msg |-> "",
          obj |-> {[repo EXCEPT !.remote_url = remote_url, !.updated_at = now]}]

Vault_post_init(name, path) ==
    IF ~Resource_validate_name(name) THEN "ValueError"
    ELSE IF ~Resource_validate_path(path) THEN "ValueError"
    ELSE "ok"

(***************************************************************************)
(* What the domain dataclasses define.  A constructor keyword that is not  *)
(* a field raises TypeError; a method that is not defined raises           *)
(* AttributeError.                                                         *)
(***************************************************************************)
UserProfileFields == {"id", "username", "email", "preferences", "created_at", "updated_at"}

UserProfileMethods ==
    {"validate_username", "validate_email", "can_create_workspace", "update_preferences",
     "update_email"}

WorkspaceFields ==
    {"id", "name", "description", "user_profile_id", "workspace_type", "settings",
     "shared_resources", "created_at", "updated_at"}

WorkspaceMethods ==
    {"validate_name", "validate_workspace_type", "can_be_deleted", "add_shared_resource",
     "remove_shared_resource", "update_settings", "update_description", "rename"}

\* a Repo dataclass that has the metadata field create_repo passes
RepoFields_with_metadata ==
    {"id", "name", "path", "workspace_id", "remote_url", "metadata", "created_at", "updated_at"}

RepoFields == {"id", "name", "path", "workspace_id", "remote_url", "created_at", "updated_at"}

RepoMethods ==
    {"validate_name", "validate_path", "validate_remote_url", "update_remote_url",
     "update_path", "rename"}

VaultFields == {"id", "name", "path", "workspace_id", "created_at", "updated_at"}

VaultMethods == {"validate_name", "validate_path", "update_path", "rename"}

(***************************************************************************)
(* The store: the four tables of infrastructure/database/models.  A row is *)
(* a record of the columns; JSON columns are sets of <<key, value>> pairs. *)
(***************************************************************************)
EmptyDB == [user_profiles |-> {}, workspaces |-> {}, repos |-> {}, vaults |-> {}]

UserProfileColumns == {"id", "username", "email", "preferences", "created_at", "updated_at"}

WorkspaceColumns ==
    {"id", "name", "description", "user_profile_id", "workspace_type", "settings",
     "shared_resources", "created_at", "updated_at"}

RepoColumns ==
    {"id", "name", "path", "workspace_id", "remote_url", "meta_data", "last_synced",
     "created_at", "updated_at"}

VaultColumns ==
    {"id", "name", "path", "workspace_id", "meta_data", "is_locked", "created_at", "updated_at"}

\* Column defaults applied at INSERT for the columns the model object leaves unset
RepoDBDefaults == [meta_data |-> {}, last_synced |-> None]

VaultDBDefaults == [meta_data |-> {}, is_locked |-> FALSE]

Ids(table) == {r.id : r \in table}

\* Timestamps are instants of a logical clock; datetime.now(UTC) is later
\* than every instant that is already stored.
Timestamps(s) ==
    {r.created_at : r \in s.user_profiles} \cup {r.updated_at : r \in s.user_profiles}
    \cup {r.created_at : r \in s.workspaces} \cup {r.updated_at : r \in s.workspaces}
    \cup {r.created_at : r \in s.repos} \cup {r.updated_at : r \in s.repos}
    \cup {r.created_at : r \in s.vaults} \cup {r.updated_at : r \in s.vaults}

Now(s) ==
    LET ts == Timestamps(s) \cup {0}
    IN  1 + CHOOSE t \in ts : \A u \in ts : u <= t

(***************************************************************************)
(* SQLAlchemyRepository (repositories/base.py) on a session s              *)
(***************************************************************************)
\* get: session.get(model_class, id); None ({}) when absent
Get(table, id) == {r \in table : r.id = id}

Exists(table, id) == \E r \in table : r.id = id

\* _to_model: the keyword arguments each repository passes to its DB model
UserProfile_to_model(e) ==
    [id |-> e.id, username |-> e.username, email |-> e.email, preferences |-> e.preferences,
     created_at |-> e.created_at, updated_at |-> e.updated_at]

Workspace_to_model(e) ==
    [id |-> e.id, name |-> e.name, description |-> e.description,
     user_profile_id |-> e.user_profile_id, workspace_type |-> e.workspace_type,
     settings |-> e.settings, shared_resources |-> e.shared_resources,
     created_at |-> e.created_at, updated_at |-> e.updated_at]

Repo_to_model(e) ==
    [id |-> e.id, name |-> e.name, path |-> e.path, workspace_id |-> e.workspace_id,
     remote_url |-> e.remote_url, created_at |-> e.created_at, updated_at |-> e.updated_at]

Vault_to_model(e) ==
    [id |-> e.id, name |-> e.name, path |-> e.path, workspace_id |-> e.workspace_id,
     created_at |-> e.created_at, updated_at |-> e.updated_at]

\* save: update copies the attributes set on the new model object onto the
\* existing row; create inserts the model object, unset columns taking defaults.
\* The flush of an update writes the columns whose value changed; when it
\* writes any and updated_at is not among them, the column's onupdate sets
\* updated_at to datetime.now(UTC).
Upsert(table, m, defaults, now) ==
    IF Exists(table, m.id)
    THEN LET existing == Val(Get(table, m.id))
             updated == [c \in DOMAIN existing |->
                            IF c \in DOMAIN m THEN m[c] ELSE existing[c]]
             flushed == IF updated # existing /\ updated.updated_at = existing.updated_at
                        THEN [updated EXCEPT !.updated_at = now]
                        ELSE updated
         IN  (table \ {existing}) \cup {flushed}
    ELSE table \cup
         {[c \in DOMAIN m \cup DOMAIN defaults |->
              IF c \in DOMAIN m THEN m[c] ELSE defaults[c]]}

\* _to_entity: the domain constructor runs again on the stored row
UserProfile_to_entity(r) == UserProfile_post_init(r.username, r.email)

Workspace_to_entity(r) == Workspace_post_init(r.name, r.workspace_type)

Repo_to_entity(r) == Repo_post_init(r.name, r.path, r.remote_url)

Vault_to_entity(r) == Vault_post_init(r.name, r.path)

\* the entity _to_entity builds from a row: the columns it passes on
UserProfile_entity(r) ==
    [id |-> r.id, username |-> r.username, email |-> r.email, preferences |-> r.preferences,
     created_at |-> r.created_at, updated_at |-> r.updated_at]

Workspace_entity(r) ==
    [id |-> r.id, name |-> r.name, description |-> r.description,
     user_profile_id |-> r.user_profile_id, workspace_type |-> r.workspace_type,
     settings |-> r.settings, shared_resources |-> r.shared_resources,
     created_at |-> r.created_at, updated_at |-> r.updated_at]

Repo_entity(r) ==
    [id |-> r.id, name |-> r.name, path |-> r.path, workspace_id |-> r.workspace_id,
     remote_url |-> r.remote_url, created_at |-> r.created_at, updated_at |-> r.updated_at]

Vault_entity(r) ==
    [id |-> r.id, name |-> r.name, path |-> r.path, workspace_id |-> r.workspace_id,
     created_at |-> r.created_at, updated_at |-> r.updated_at]

\* The JSON column type binds a value with json.dumps, which raises TypeError
\* for a UUID; shared_resources maps a resource type to a list of UUIDs, so it
\* can be bound only while every list is empty.  The other JSON columns hold
\* strings here.
json_dumps_shared_resources(shared_resources) ==
    IF \A entry \in shared_resources : entry[2] = <<>> THEN "ok" ELSE "StatementError"

\* save returns [res, s, entity]: "ok" or the error raised, the session after
\* the flush, and the entity returned (None when it raised)
save_user_profile(s, e) ==
    LET t == Upsert(s.user_profiles, UserProfile_to_model(e), <<>>, Now(s))
        row == Val(Get(t, e.id))
    IN  [res |-> UserProfile_to_entity(row),
         s |-> [s EXCEPT !.user_profiles = t],
         entity |-> IF UserProfile_to_entity(row) = "ok"
                    THEN Some(UserProfile_entity(row)) ELSE None]

save_workspace(s, e) ==
    LET t == Upsert(s.workspaces, Workspace_to_model(e), <<>>, Now(s))
        row == Val(Get(t, e.id))
    IN  IF json_dumps_shared_resources(e.shared_resources) # "ok"
        THEN [res |-> json_dumps_shared_resources(e.shared_resources), s |-> s,
              entity |-> None]
        ELSE [res |-> Workspace_to_entity(row),
              s |-> [s EXCEPT !.workspaces = t],
              entity |-> IF Workspace_to_entity(row) = "ok"
                         THEN Some(Workspace_entity(row)) ELSE None]

save_repo(s, e) ==
    LET t == Upsert(s.repos, Repo_to_model(e), RepoDBDefaults, Now(s))
        row == Val(Get(t, e.id))
    IN  [res |-> Repo_to_entity(row),
         s |-> [s EXCEPT !.repos = t],
         entity |-> IF Repo_to_entity(row) = "ok" THEN Some(Repo_entity(row)) ELSE None]

save_vault(s, e) ==
    LET t == Upsert(s.vaults, Vault_to_model(e), VaultDBDefaults, Now(s))
        row == Val(Get(t, e.id))
    IN  [res |-> Vault_to_entity(row),
         s |-> [s EXCEPT !.vaults = t],
         entity |-> IF Vault_to_entity(row) = "ok" THEN Some(Vault_entity(row)) ELSE None]

\* get: the entity built from the row the session holds, or None
get_user_profile_entity(s, id) == {UserProfile_entity(r) : r \in Get(s.user_profiles, id)}

get_workspace_entity(s, id) == {Workspace_entity(r) : r \in Get(s.workspaces, id)}

get_repo_entity(s, id) == {Repo_entity(r) : r \in Get(s.repos, id)}

get_vault_entity(s, id) == {Vault_entity(r) : r \in Get(s.vaults, id)}

\* delete: session.delete cascades along the relationships declared with
\* cascade="all, delete-orphan" (UserProfileDB.workspaces, WorkspaceDB.repos,
\* WorkspaceDB.vaults)
CascadeWorkspaces_keeping_resources(s, gone) ==
    [s EXCEPT !.workspaces = {w \in s.workspaces : w.id \notin gone}]

CascadeWorkspaces(s, gone) ==
    [s EXCEPT !.workspaces = {w \in s.workspaces : w.id \notin gone},
              !.repos = {r \in s.repos : r.workspace_id \notin gone},
              !.vaults = {v \in s.vaults : v.workspace_id \notin gone}]

\* delete of a workspace row that leaves the rows of its repos and vaults
delete_workspace_row_without_cascade(s, id) ==
    [s EXCEPT !.workspaces = {w \in s.workspaces : w.id # id}]

delete_workspace_row(s, id) == CascadeWorkspaces(s, {id} \cap Ids(s.workspaces))

\* delete of a user row that leaves the rows of the user's workspaces
delete_user_profile_row_without_cascade(s, id) ==
    [s EXCEPT !.user_profiles = {u \in s.user_profiles : u.id # id}]

delete_user_profile_row(s, id) ==
    IF ~Exists(s.user_profiles, id) THEN s
    ELSE LET owned == {w.id : w \in {x \in s.workspaces : x.user_profile_id = id}}
             s1 == CascadeWorkspaces(s, owned)
         IN  [s1 EXCEPT !.user_profiles = {u \in s.user_profiles : u.id # id}]

delete_repo_row(s, id) == [s EXCEPT !.repos = {r \in s.repos : r.id # id}]

delete_vault_row(s, id) == [s EXCEPT !.vaults = {v \in s.vaults : v.id # id}]

(***************************************************************************)
(* Aggregate-specific finders                                              *)
(***************************************************************************)
\* username_exists that matches nothing unless an id to exclude is given
username_exists_only_with_exclude(s, username, exclude_id) ==
    \E u \in s.user_profiles :
        u.username = username /\ ~IsNone(exclude_id) /\ u.id # Val(exclude_id)

username_exists(s, username, exclude_id) ==
    \E u \in s.user_profiles :
        u.username = username /\ (IsNone(exclude_id) \/ u.id # Val(exclude_id))

\* email_exists that matches nothing when an id to exclude is given
email_exists_only_without_exclude(s, email, exclude_id) ==
    \E u \in s.user_profiles : u.email = email /\ IsNone(exclude_id)

email_exists(s, email, exclude_id) ==
    \E u \in s.user_profiles :
        u.email = email /\ (IsNone(exclude_id) \/ u.id # Val(exclude_id))

count_workspaces(s, user_id) ==
    Cardinality({w \in s.workspaces : w.user_profile_id = user_id})

\* count_resources that reports the repos and vaults of a workspace as one total
count_resources_as_one_total(s, workspace_id) ==
    LET total == Cardinality({r \in s.repos : r.workspace_id = workspace_id})
                 + Cardinality({v \in s.vaults : v.workspace_id = workspace_id})
    IN  [repos |-> total, vaults |-> total]

count_resources(s, workspace_id) ==
    [repos |-> Cardinality({r \in s.repos : r.workspace_id = workspace_id}),
     vaults |-> Cardinality({v \in s.vaults : v.workspace_id = workspace_id})]

repo_name_exists_in_workspace(s, workspace_id, name, exclude_id) ==
    \E r \in s.repos :
        /\ r.workspace_id = workspace_id
        /\ r.name = name
        /\ (IsNone(exclude_id) \/ r.id # Val(exclude_id))

vault_name_exists_in_workspace(s, workspace_id, name, exclude_id) ==
    \E v \in s.vaults :
        /\ v.workspace_id = workspace_id
        /\ v.name = name
        /\ (IsNone(exclude_id) \/ v.id # Val(exclude_id))

(***************************************************************************)
(* SQLAlchemyUnitOfWork.  A handler body yields [res, s, committed]: the   *)
(* outcome, the session rows when the scope is left, and whether commit()  *)
(* ran.  __aexit__ closes the session: rows that were flushed but not      *)
(* committed are dropped, and the exception (res) passes through.          *)
(***************************************************************************)
Raised(s, err) == [res |-> err, s |-> s, committed |-> FALSE, ret |-> None]

\* ret is the returned value as an option (None for the methods returning nothing)
Committed(s, ret) == [res |-> "ok", s |-> s, committed |-> TRUE, ret |-> ret]

Returned(s, ret) == [res |-> "ok", s |-> s, committed |-> FALSE, ret |-> ret]

aexit(committed_db, body) ==
    [res |-> body.res,
     db |-> IF body.committed THEN body.s ELSE committed_db,
     ret |-> body.ret]

\* An exception raised before the scope is entered
RaisedOutside(committed_db, err) == [res |-> err, db |-> committed_db, ret |-> None]

(***************************************************************************)
(* The SQLAlchemyUnitOfWork object itself, as a caller that holds it sees   *)
(* it: open is "self._session is not None", bound says that the repository *)
(* attributes have been assigned (they stay assigned, to the session of the *)
(* last scope, after __aexit__), and rows is what that session sees: the    *)
(* committed rows and the writes flushed through it since its transaction  *)
(* began.  AsyncSession.__aexit__ closes the session, which ends its        *)
(* transaction without commit; a closed session begins a new transaction   *)
(* when it is used again.                                                  *)
(***************************************************************************)
UoW_init(committed_db) == [open |-> FALSE, bound |-> FALSE, rows |-> committed_db]

UoW_aenter(committed_db, u) == [open |-> TRUE, bound |-> TRUE, rows |-> committed_db]

\* __aexit__ that commits what the session has flushed
UoW_aexit_commits_flushed(committed_db, u) ==
    IF u.open
    THEN [db |-> u.rows, uow |-> [u EXCEPT !.open = FALSE]]
    ELSE [db |-> committed_db, uow |-> u]

\* "if self._session: await self._session.__aexit__(...); self._session = None"
UoW_aexit(committed_db, u) ==
    IF u.open
    THEN [db |-> committed_db, uow |-> [u EXCEPT !.open = FALSE, !.rows = committed_db]]
    ELSE [db |-> committed_db, uow |-> u]

\* "if self._session: await self._session.commit()"
UoW_commit(committed_db, u) ==
    IF u.open
    THEN [res |-> "ok", db |-> u.rows, uow |-> u]
    ELSE [res |-> "ok", db |-> committed_db, uow |-> u]

\* "if self._session: await self._session.rollback()"
UoW_rollback(committed_db, u) ==
    IF u.open
    THEN [res |-> "ok", db |-> committed_db, uow |-> [u EXCEPT !.rows = committed_db]]
    ELSE [res |-> "ok", db |-> committed_db, uow |-> u]

\* the unit of work of a service after one of its methods has run: every
\* method body is one "async with self._uow" scope
UoW_after_scope(committed_db) ==
    UoW_aexit(committed_db, UoW_aenter(committed_db, UoW_init(committed_db))).uow

\* Python truthiness of an optional string argument: neither None nor ""
Truthy(o) == ~IsNone(o) /\ Val(o) # <<>>

(***************************************************************************)
(* UserProfileService (domain/services/user_profile.py)                    *)
(***************************************************************************)
\* create_user_profile with save and commit moved before the email check
create_user_profile_commit_before_email_check(d, new_id, username, email, preferences) ==
    IF UserProfile_post_init(username, email) # "ok"
    THEN RaisedOutside(d, UserProfile_post_init(username, email))
    ELSE LET user_profile ==
                 [id |-> new_id, username |-> username, email |-> email,
                  preferences |-> IF IsNone(preferences) THEN {} ELSE Val(preferences),
                  created_at |-> Now(d), updated_at |-> Now(d)]
             saved == save_user_profile(d, user_profile)
             body ==
                 IF username_exists(d, username, None)
                 THEN Raised(d, "UsernameAlreadyExistsError")
                 ELSE IF email_exists(d, email, None)
                 THEN [res |-> "EmailAlreadyExistsError", s |-> saved.s, committed |-> TRUE,
                       ret |-> None]
                 ELSE Committed(saved.s, Some(user_profile))
         IN  aexit(d, body)

create_user_profile(d, new_id, username, email, preferences) ==
    IF UserProfile_post_init(username, email) # "ok"
    THEN RaisedOutside(d, UserProfile_post_init(username, email))
    ELSE LET user_profile ==
                 [id |-> new_id, username |-> username, email |-> email,
                  preferences |-> IF IsNone(preferences) THEN {} ELSE Val(preferences),
                  created_at |-> Now(d), updated_at |-> Now(d)]
             body ==
                 IF username_exists(d, username, None)
                 THEN Raised(d, "UsernameAlreadyExistsError")
                 ELSE IF email_exists(d, email, None)
                 THEN Raised(d, "EmailAlreadyExistsError")
                 ELSE LET saved == save_user_profile(d, user_profile)
                      IN  IF saved.res # "ok" THEN Raised(saved.s, saved.res)
                          ELSE Committed(saved.s, Some(user_profile))
         IN  aexit(d, body)

update_user_profile(d, user_id, username, email, preferences) ==
    LET body ==
            IF ~Exists(d.user_profiles, user_id)
            THEN Raised(d, "UserProfileNotFoundError")
            ELSE
            LET p0 == Val(Get(d.user_profiles, user_id))
                changeName == Truthy(username) /\ Val(username) # p0.username
            IN
            IF changeName /\ username_exists(d, Val(username), Some(user_id))
            THEN Raised(d, "UsernameAlreadyExistsError")
            ELSE
            LET p1 == IF changeName THEN [p0 EXCEPT !.username = Val(username)] ELSE p0
                changeEmail == Truthy(email) /\ Val(email) # p1.email
            IN
            IF changeEmail /\ email_exists(d, Val(email), Some(user_id))
            THEN Raised(d, "EmailAlreadyExistsError")
            ELSE
            LET p2 == IF changeEmail THEN [p1 EXCEPT !.email = Val(email)] ELSE p1
                p3 == IF ~IsNone(preferences)
                      THEN [p2 EXCEPT !.preferences = Val(preferences)] ELSE p2
            IN
            IF "update_timestamp" \notin UserProfileMethods
            THEN Raised(d, "AttributeError")
            ELSE LET saved == save_user_profile(d, p3)
                 IN  IF saved.res # "ok" THEN Raised(saved.s, saved.res)
                     ELSE Committed(saved.s, Some(p3))
    IN  aexit(d, body)

get_user_profile(d, user_id) ==
    aexit(d, IF ~Exists(d.user_profiles, user_id)
             THEN Raised(d, "UserProfileNotFoundError")
             ELSE Returned(d, Get(d.user_profiles, user_id)))

delete_user_profile(d, user_id) ==
    aexit(d, IF ~Exists(d.user_profiles, user_id)
             THEN Raised(d, "UserProfileNotFoundError")
             ELSE Committed(delete_user_profile_row(d, user_id), None))

(***************************************************************************)
(* WorkspaceService (domain/services/workspace.py)                         *)
(***************************************************************************)
\* create_workspace that refuses only above the limit (> in place of >=)
create_workspace_limit_off_by_one(d, new_id, user_id, name, workspace_type, settings) ==
    LET workspace ==
            [id |-> new_id, name |-> name, description |-> None,
             user_profile_id |-> user_id, workspace_type |-> workspace_type,
             settings |-> IF IsNone(settings) THEN {} ELSE Val(settings),
             shared_resources |-> {}, created_at |-> Now(d), updated_at |-> Now(d)]
        body ==
            IF ~Exists(d.user_profiles, user_id)
            THEN Raised(d, "UserProfileNotFoundError")
            ELSE IF count_workspaces(d, user_id) > MaxWorkspacesPerUser
            THEN Raised(d, "WorkspaceLimitExceeded")
            ELSE IF Workspace_post_init(name, workspace_type) # "ok"
            THEN Raised(d, Workspace_post_init(name, workspace_type))
            ELSE LET saved == save_workspace(d, workspace)
                 IN  IF saved.res # "ok" THEN Raised(saved.s, saved.res)
                     ELSE Committed(saved.s, Some(workspace))
    IN  aexit(d, body)

create_workspace(d, new_id, user_id, name, workspace_type, settings) ==
    LET workspace ==
            [id |-> new_id, name |-> name, description |-> None,
             user_profile_id |-> user_id, workspace_type |-> workspace_type,
             settings |-> IF IsNone(settings) THEN {} ELSE Val(settings),
             shared_resources |-> {}, created_at |-> Now(d), updated_at |-> Now(d)]
        body ==
            IF ~Exists(d.user_profiles, user_id)
            THEN Raised(d, "UserProfileNotFoundError")
            ELSE IF count_workspaces(d, user_id) >= MaxWorkspacesPerUser
            THEN Raised(d, "WorkspaceLimitExceeded")
            ELSE IF Workspace_post_init(name, workspace_type) # "ok"
            THEN Raised(d, Workspace_post_init(name, workspace_type))
            ELSE LET saved == save_workspace(d, workspace)
                 IN  IF saved.res # "ok" THEN Raised(saved.s, saved.res)
                     ELSE Committed(saved.s, Some(workspace))
    IN  aexit(d, body)

\* an update_workspace that hands the workspace to whoever calls it
update_workspace_reassigning_owner(d, workspace_id, user_id, name, settings) ==
    aexit(d, IF ~Exists(d.workspaces, workspace_id)
             THEN Raised(d, "WorkspaceNotFoundError")
             ELSE LET w0 == Val(Get(d.workspaces, workspace_id))
                      w1 == [w0 EXCEPT !.user_profile_id = user_id]
                  IN  Committed(save_workspace(d, w1).s, Some(w1)))

update_workspace(d, workspace_id, user_id, name, settings) ==
    LET body ==
            IF ~Exists(d.workspaces, workspace_id)
            THEN Raised(d, "WorkspaceNotFoundError")
            ELSE
            LET w0 == Val(Get(d.workspaces, workspace_id)) IN
            IF w0.user_profile_id # user_id
            THEN Raised(d, "WorkspaceNotOwnedByUserError")
            ELSE
            LET w1 == IF ~IsNone(name) THEN [w0 EXCEPT !.name = Val(name)] ELSE w0
                w2 == IF ~IsNone(settings) THEN [w1 EXCEPT !.settings = Val(settings)] ELSE w1
            IN
            IF "update_timestamp" \notin WorkspaceMethods
            THEN Raised(d, "AttributeError")
            ELSE LET saved == save_workspace(d, w2)
                 IN  IF saved.res # "ok" THEN Raised(saved.s, saved.res)
                     ELSE Committed(saved.s, Some(w2))
    IN  aexit(d, body)

\* get_workspace that treats a missing user_id as a user who is not the owner
get_workspace_check_without_user(d, workspace_id, user_id) ==
    aexit(d, IF ~Exists(d.workspaces, workspace_id)
             THEN Raised(d, "WorkspaceNotFoundError")
             ELSE LET w == Val(Get(d.workspaces, workspace_id))
                  IN  IF IsNone(user_id) \/ w.user_profile_id # Val(user_id)
                      THEN Raised(d, "WorkspaceNotOwnedByUserError")
                      ELSE Returned(d, Some(w)))

get_workspace(d, workspace_id, user_id) ==
    aexit(d, IF ~Exists(d.workspaces, workspace_id)
             THEN Raised(d, "WorkspaceNotFoundError")
             ELSE LET w == Val(Get(d.workspaces, workspace_id))
                  IN  IF ~IsNone(user_id) /\ w.user_profile_id # Val(user_id)
                      THEN Raised(d, "WorkspaceNotOwnedByUserError")
                      ELSE Returned(d, Some(w)))

get_workspace_stats(d, workspace_id) ==
    aexit(d, IF ~Exists(d.workspaces, workspace_id)
             THEN Raised(d, "WorkspaceNotFoundError")
             ELSE Returned(d, Some(count_resources(d, workspace_id))))

\* GetWorkspaceStatsHandler.handle: the WorkspaceStatsDTO built from the stats
GetWorkspaceStatsHandler_handle(d, workspace_id) ==
    LET r == get_workspace_stats(d, workspace_id)
    IN  IF r.res # "ok" THEN r
        ELSE LET stats == Val(r.ret)
             IN  [r EXCEPT !.ret = Some([workspace_id |-> workspace_id,
                                         repo_count |-> stats.repos,
                                         vault_count |-> stats.vaults,
                                         total_resources |-> stats.repos + stats.vaults])]

delete_workspace(d, workspace_id, user_id) ==
    aexit(d, IF ~Exists(d.workspaces, workspace_id)
             THEN Raised(d, "WorkspaceNotFoundError")
             ELSE IF Val(Get(d.workspaces, workspace_id)).user_profile_id # user_id
             THEN Raised(d, "WorkspaceNotOwnedByUserError")
             ELSE Committed(delete_workspace_row(d, workspace_id), None))

(***************************************************************************)
(* RepoService (domain/services/repo.py)                                   *)
(***************************************************************************)
\* the ownership test reduced to "not workspace"
NotOwner_missing_only(d, workspace_id, user_id) ==
    ~Exists(d.workspaces, workspace_id)

\* "not workspace or workspace.user_profile_id != user_id"
NotOwner(d, workspace_id, user_id) ==
    \/ ~Exists(d.workspaces, workspace_id)
    \/ Val(Get(d.workspaces, workspace_id)).user_profile_id # user_id

CreateRepoKwargs == {"name", "workspace_id", "path", "remote_url", "metadata"}

create_repo(d, new_id, workspace_id, user_id, name, path, remote_url, metadata) ==
    LET thePath == IF Truthy(path) THEN Val(path) ELSE <<>>
        repo == [id |-> new_id, name |-> name, path |-> thePath,
                 workspace_id |-> workspace_id, remote_url |-> remote_url,
                 created_at |-> Now(d), updated_at |-> Now(d)]
        body ==
            IF ~Exists(d.workspaces, workspace_id)
            THEN Raised(d, "WorkspaceNotFoundError")
            ELSE IF Val(Get(d.workspaces, workspace_id)).user_profile_id # user_id
            THEN Raised(d, "WorkspaceNotOwnedByUserError")
            ELSE IF count_resources(d, workspace_id).repos >= MaxReposPerWorkspace
            THEN Raised(d, "RepoLimitExceeded")
            ELSE IF repo_name_exists_in_workspace(d, workspace_id, name, None)
            THEN Raised(d, "DuplicateRepoNameError")
            ELSE IF ~(CreateRepoKwargs \subseteq RepoFields)
            THEN Raised(d, "TypeError")
            ELSE IF Repo_post_init(name, thePath, remote_url) # "ok"
            THEN Raised(d, Repo_post_init(name, thePath, remote_url))
            ELSE LET saved == save_repo(d, repo)
                 IN  IF saved.res # "ok" THEN Raised(saved.s, saved.res)
                     ELSE Committed(saved.s, Some(repo))
    IN  aexit(d, body)

update_repo(d, repo_id, user_id, name, path, remote_url, metadata) ==
    LET body ==
            IF ~Exists(d.repos, repo_id)
            THEN Raised(d, "RepoNotFoundError")
            ELSE
            LET r0 == Repo_entity(Val(Get(d.repos, repo_id)))
                changeName == Truthy(name) /\ Val(name) # r0.name
            IN
            IF NotOwner(d, r0.workspace_id, user_id)
            THEN Raised(d, "WorkspaceNotOwnedByUserError")
            ELSE IF changeName
                    /\ repo_name_exists_in_workspace(d, r0.workspace_id, Val(name), Some(repo_id))
            THEN Raised(d, "DuplicateRepoNameError")
            ELSE
            LET r1 == IF changeName THEN [r0 EXCEPT !.name = Val(name)] ELSE r0
                r2 == IF ~IsNone(path) THEN [r1 EXCEPT !.path = Val(path)] ELSE r1
                r3 == IF ~IsNone(remote_url) THEN [r2 EXCEPT !.remote_url = remote_url] ELSE r2
            IN
            IF "update_timestamp" \notin RepoMethods
            THEN Raised(d, "AttributeError")
            ELSE LET saved == save_repo(d, r3)
                 IN  IF saved.res # "ok" THEN Raised(saved.s, saved.res)
                     ELSE Committed(saved.s, Some(r3))
    IN  aexit(d, body)

get_repo(d, repo_id, user_id) ==
    aexit(d, IF ~Exists(d.repos, repo_id)
             THEN Raised(d, "RepoNotFoundError")
             ELSE LET r == Repo_entity(Val(Get(d.repos, repo_id)))
                  IN  IF ~IsNone(user_id) /\ NotOwner(d, r.workspace_id, Val(user_id))
                      THEN Raised(d, "WorkspaceNotOwnedByUserError")
                      ELSE Returned(d, Some(r)))

\* the result is the unordered collection of the workspace's repos
list_workspace_repos(d, workspace_id, user_id) ==
    aexit(d, IF ~Exists(d.workspaces, workspace_id)
             THEN Raised(d, "WorkspaceNotFoundError")
             ELSE IF /\ ~IsNone(user_id)
                     /\ Val(Get(d.workspaces, workspace_id)).user_profile_id # Val(user_id)
             THEN Raised(d, "WorkspaceNotOwnedByUserError")
             ELSE Returned(d, Some({Repo_entity(r) :
                                       r \in {x \in d.repos : x.workspace_id = workspace_id}})))

delete_repo(d, repo_id, user_id) ==
    aexit(d, IF ~Exists(d.repos, repo_id)
             THEN Raised(d, "RepoNotFoundError")
             ELSE IF NotOwner(d, Val(Get(d.repos, repo_id)).workspace_id, user_id)
             THEN Raised(d, "WorkspaceNotOwnedByUserError")
             ELSE Committed(delete_repo_row(d, repo_id), None))

sync_with_remote(d, repo_id, user_id) ==
    LET body ==
            IF ~Exists(d.repos, repo_id)
            THEN Raised(d, "RepoNotFoundError")
            ELSE
            LET r0 == Repo_entity(Val(Get(d.repos, repo_id))) IN
            IF NotOwner(d, r0.workspace_id, user_id)
            THEN Raised(d, "WorkspaceNotOwnedByUserError")
            ELSE IF "mark_synced" \notin RepoMethods
            THEN Raised(d, "AttributeError")
            ELSE LET saved == save_repo(d, r0)
                 IN  IF saved.res # "ok" THEN Raised(saved.s, saved.res)
                     ELSE Committed(saved.s, Some(r0))
    IN  aexit(d, body)

(***************************************************************************)
(* VaultService (domain/services/vault.py)                                 *)
(***************************************************************************)
CreateVaultKwargs == {"name", "workspace_id", "path", "metadata"}

create_vault(d, new_id, workspace_id, user_id, name, path, metadata) ==
    LET vault == [id |-> new_id, name |-> name, path |-> path, workspace_id |-> workspace_id,
                  created_at |-> Now(d), updated_at |-> Now(d)]
        body ==
            IF ~Exists(d.workspaces, workspace_id)
            THEN Raised(d, "WorkspaceNotFoundError")
            ELSE IF Val(Get(d.workspaces, workspace_id)).user_profile_id # user_id
            THEN Raised(d, "WorkspaceNotOwnedByUserError")
            ELSE IF count_resources(d, workspace_id).vaults >= MaxVaultsPerWorkspace
            THEN Raised(d, "VaultLimitExceeded")
            ELSE IF vault_name_exists_in_workspace(d, workspace_id, name, None)
            THEN Raised(d, "DuplicateVaultNameError")
            ELSE IF ~(CreateVaultKwargs \subseteq VaultFields)
            THEN Raised(d, "TypeError")
            ELSE IF Vault_post_init(name, path) # "ok"
            THEN Raised(d, Vault_post_init(name, path))
            ELSE LET saved == save_vault(d, vault)
                 IN  IF saved.res # "ok" THEN Raised(saved.s, saved.res)
                     ELSE Committed(saved.s, Some(vault))
    IN  aexit(d, body)

update_vault(d, vault_id, user_id, name, path, metadata) ==
    LET body ==
            IF ~Exists(d.vaults, vault_id)
            THEN Raised(d, "VaultNotFoundError")
            ELSE
            LET v0 == Vault_entity(Val(Get(d.vaults, vault_id)))
                changeName == Truthy(name) /\ Val(name) # v0.name
            IN
            IF NotOwner(d, v0.workspace_id, user_id)
            THEN Raised(d, "WorkspaceNotOwnedByUserError")
            ELSE IF changeName
                    /\ vault_name_exists_in_workspace(d, v0.workspace_id, Val(name), Some(vault_id))
            THEN Raised(d, "DuplicateVaultNameError")
            ELSE
            LET v1 == IF changeName THEN [v0 EXCEPT !.name = Val(name)] ELSE v0
                v2 == IF ~IsNone(path) THEN [v1 EXCEPT !.path = Val(path)] ELSE v1
            IN
            IF "update_timestamp" \notin VaultMethods
            THEN Raised(d, "AttributeError")
            ELSE LET saved == save_vault(d, v2)
                 IN  IF saved.res # "ok" THEN Raised(saved.s, saved.res)
                     ELSE Committed(saved.s, Some(v2))
    IN  aexit(d, body)

get_vault(d, vault_id, user_id) ==
    aexit(d, IF ~Exists(d.vaults, vault_id)
             THEN Raised(d, "VaultNotFoundError")
             ELSE LET v == Vault_entity(Val(Get(d.vaults, vault_id)))
                  IN  IF ~IsNone(user_id) /\ NotOwner(d, v.workspace_id, Val(user_id))
                      THEN Raised(d, "WorkspaceNotOwnedByUserError")
                      ELSE Returned(d, Some(v)))

list_workspace_vaults(d, workspace_id, user_id) ==
    aexit(d, IF ~Exists(d.workspaces, workspace_id)
             THEN Raised(d, "WorkspaceNotFoundError")
             ELSE IF /\ ~IsNone(user_id)
                     /\ Val(Get(d.workspaces, workspace_id)).user_profile_id # Val(user_id)
             THEN Raised(d, "WorkspaceNotOwnedByUserError")
             ELSE Returned(d, Some({Vault_entity(v) :
                                       v \in {x \in d.vaults : x.workspace_id = workspace_id}})))

delete_vault(d, vault_id, user_id) ==
    aexit(d, IF ~Exists(d.vaults, vault_id)
             THEN Raised(d, "VaultNotFoundError")
             ELSE IF NotOwner(d, Val(Get(d.vaults, vault_id)).workspace_id, user_id)
             THEN Raised(d, "WorkspaceNotOwnedByUserError")
             ELSE Committed(delete_vault_row(d, vault_id), None))

\* lock_vault and unlock_vault differ only in the entity method they call
SetVaultLock(d, vault_id, user_id, method) ==
    LET body ==
            IF ~Exists(d.vaults, vault_id)
            THEN Raised(d, "VaultNotFoundError")
            ELSE
            LET v0 == Vault_entity(Val(Get(d.vaults, vault_id))) IN
            IF NotOwner(d, v0.workspace_id, user_id)
            THEN Raised(d, "WorkspaceNotOwnedByUserError")
            ELSE IF method \notin VaultMethods
            THEN Raised(d, "AttributeError")
            ELSE LET saved == save_vault(d, v0)
                 IN  IF saved.res # "ok" THEN Raised(saved.s, saved.res)
                     ELSE Committed(saved.s, Some(v0))
    IN  aexit(d, body)

lock_vault(d, vault_id, user_id) == SetVaultLock(d, vault_id, user_id, "lock")

unlock_vault(d, vault_id, user_id) == SetVaultLock(d, vault_id, user_id, "unlock")

(***************************************************************************)
(* Bounds and the inputs the operations are called with                    *)
(***************************************************************************)
\* how many entities the service calls of one behaviour may create
MaxCreates == 1

\* the uuid4 values drawn by the creating calls, in the order they are drawn
NewIds == 9001 .. (9000 + MaxCreates)

FirstNewId == CHOOSE i \in NewIds : \A j \in NewIds : i <= j

alice == <<"a","l","i","c","e">>

bob == <<"b","o","b">>

carol == <<"c","a","r","o","l","_","9">>

shortUsername == <<"a","b">>

aliceMail == <<"a","@","x",".","i","o">>

bobMail == <<"b","@","x",".","i","o">>

carolMail == <<"c","@","x",".","i","o">>

noTldMail == <<"c","@","x">>

\* <<username, email>> pairs: free, taken and malformed values in each position
UserInputs ==
    { <<carol, carolMail>>, <<alice, carolMail>>, <<carol, aliceMail>>, <<alice, aliceMail>>,
      <<shortUsername, carolMail>>, <<carol, noTldMail>>, <<alice, noTldMail>> }

darkTheme == {<<"theme", "dark">>}

\* <<username, email, preferences>> of an update: one field, or all three
UpdateUserInputs ==
    { <<None, None, Some(darkTheme)>>, <<Some(bob), None, None>>,
      <<None, Some(bobMail), None>>, <<Some(bob), Some(bobMail), Some(darkTheme)>> }

MapInputs == {None, Some(darkTheme)}

MetadataInputs == {Some(darkTheme)}

labName == <<"L","a","b">>

blankName == <<" ", " ">>

WorkspaceNameInputs == {labName, blankName}

WorkspaceTypeInputs == {"research", "bogus"}

proj1 == <<"p","r","o","j","1">>

proj2 == <<"p","r","o","j","2">>

slashName == <<"a","/","b">>

ResourceNameInputs == {proj1, proj2}

somePath == <<"/","p">>

PathInputs == {Some(somePath)}

\* user ids: two stored users and the first id a create can hand out
UserIdInputs == {1, 2, FirstNewId}

\* callers of workspace, repo and vault operations, which compare the caller
\* with the owner and never look the caller up
CallerIdInputs == {1, 2}

WorkspaceIdInputs == {11, 12, 21, FirstNewId}

RepoIdInputs == {101, 999}

VaultIdInputs == {111, 999}

(***************************************************************************)
(* Initial stores.  Repos and vaults are rows written through the          *)
(* repository port (uow.repos.save / uow.vaults.save and commit), the way  *)
(* demos/demo_repositories.py populates the database; users and workspaces *)
(* are rows as create_user_profile and create_workspace write them.        *)
(***************************************************************************)
DigitSeq == <<"0","1","2","3","4","5","6","7","8","9">>

RECURSIVE Num(_)
Num(i) == IF i < 10 THEN <<DigitSeq[i + 1]>> ELSE Num(i \div 10) \o <<DigitSeq[(i % 10) + 1]>>

FillerName(i) == <<"f">> \o Num(i)

UserRow(id, username, email) ==
    [id |-> id, username |-> username, email |-> email, preferences |-> {},
     created_at |-> 0, updated_at |-> 0]

WorkspaceRow(id, owner, name) ==
    [id |-> id, name |-> name, description |-> None, user_profile_id |-> owner,
     workspace_type |-> "general", settings |-> {}, shared_resources |-> {},
     created_at |-> 0, updated_at |-> 0]

RepoRow(id, workspace_id, name) ==
    [id |-> id, name |-> name, path |-> somePath, workspace_id |-> workspace_id,
     remote_url |-> None, meta_data |-> {}, last_synced |-> None,
     created_at |-> 0, updated_at |-> 0]

VaultRow(id, workspace_id, name) ==
    [id |-> id, name |-> name, path |-> somePath, workspace_id |-> workspace_id,
     meta_data |-> {}, is_locked |-> FALSE, created_at |-> 0, updated_at |-> 0]

\* alice (1) owns workspaces 11, 12 and fillers up to nWs in all; bob (2) owns 21.
\* Workspace 11 holds repo 101 "proj1" and vault 111 "proj1" and fillers up to
\* nRepos / nVaults in all; 12 holds repo 121 "proj2" and vault 122 "proj2";
\* 21 holds repo 201 and vault 211, both "proj1".
Seed(nWs, nRepos, nVaults) ==
    [user_profiles |-> {UserRow(1, alice, aliceMail), UserRow(2, bob, bobMail)},
     workspaces |->
        {WorkspaceRow(11, 1, labName), WorkspaceRow(12, 1, labName), WorkspaceRow(21, 2, labName)}
        \cup {WorkspaceRow(1000 + i, 1, FillerName(i)) : i \in 1..(nWs - 2)},
     repos |->
        {RepoRow(101, 11, proj1), RepoRow(121, 12, proj2), RepoRow(201, 21, proj1)}
        \cup {RepoRow(2000 + i, 11, FillerName(i)) : i \in 1..(nRepos - 1)},
     vaults |->
        {VaultRow(111, 11, proj1), VaultRow(122, 12, proj2), VaultRow(211, 21, proj1)}
        \cup {VaultRow(3000 + i, 11, FillerName(i)) : i \in 1..(nVaults - 1)}]

SeedStores == {EmptyDB, Seed(2, 1, 1)}

NoOp == [op |-> "init", res |-> "ok", note |-> ""]

\* lastOp records the last call: the method, its outcome and a note on its case
Op(op, r, note) == [op |-> op, res |-> r.res, note |-> note]

\* no task is running
NoLoop == [tasks |-> <<>>, uows |-> <<>>, sessions |-> <<>>]

\* no domain model has been constructed directly
NoCall == [fn |-> "none", args |-> <<>>, res |-> "", msg |-> "", obj |-> None]

Init ==
    /\ db \in SeedStores
    /\ nextId = FirstNewId
    /\ lastOp = NoOp
    /\ uow = UoW_init(db)
    /\ call = NoCall
    /\ loop = NoLoop

\* a call that creates an entity draws a fresh uuid4; the bound caps how many
CanCreate(r) == r.res = "ok" => nextId \in NewIds

Allocate(r) == nextId' = IF r.res = "ok" THEN nextId + 1 ELSE nextId

OptionsOf(S) == {None} \cup {Some(x) : x \in S}

(***************************************************************************)
(* Actions: one service call each                                          *)
(***************************************************************************)
CreateUserProfile ==
    \E input \in UserInputs, preferences \in {Some(darkTheme)} :
        LET username == input[1]
            email == input[2]
            r == create_user_profile(db, nextId, username, email, preferences)
            note == IF username_exists(db, username, None) /\ ~email_exists(db, email, None)
                    THEN "username taken, email free"
                    ELSE IF ~username_exists(db, username, None) /\ email_exists(db, email, None)
                    THEN "email taken, username free"
                    ELSE IF username_exists(db, username, None) /\ email_exists(db, email, None)
                    THEN "username and email taken"
                    ELSE ""
        IN  /\ CanCreate(r)
            /\ db' = r.db
            /\ Allocate(r)
            /\ uow' = UoW_after_scope(r.db)
            /\ UNCHANGED <<call, loop>>
            /\ lastOp' = Op("create_user_profile", r, note)

UpdateUserProfile ==
    \E user_id \in UserIdInputs, input \in UpdateUserInputs :
        LET username == input[1]
            email == input[2]
            preferences == input[3]
            r == update_user_profile(db, user_id, username, email, preferences)
        IN  /\ db' = r.db
            /\ uow' = UoW_after_scope(r.db)
            /\ UNCHANGED <<call, loop>>
            /\ lastOp' = Op("update_user_profile", r, "")
            /\ UNCHANGED nextId

GetUserProfile ==
    \E user_id \in UserIdInputs :
        LET r == get_user_profile(db, user_id)
        IN  /\ db' = r.db
            /\ uow' = UoW_after_scope(r.db)
            /\ UNCHANGED <<call, loop>>
            /\ lastOp' = Op("get_user_profile", r, "")
            /\ UNCHANGED nextId

DeleteUserProfile ==
    \E user_id \in UserIdInputs :
        LET r == delete_user_profile(db, user_id)
            note == IF \E w \in db.workspaces :
                           /\ w.user_profile_id = user_id
                           /\ count_resources(db, w.id).repos > 0
                           /\ count_resources(db, w.id).vaults > 0
                    THEN "owned workspaces with repos and vaults" ELSE ""
        IN  /\ db' = r.db
            /\ uow' = UoW_after_scope(r.db)
            /\ UNCHANGED <<call, loop>>
            /\ lastOp' = Op("delete_user_profile", r, note)
            /\ UNCHANGED nextId

CreateWorkspace ==
    \E user_id \in UserIdInputs, name \in WorkspaceNameInputs,
       workspace_type \in WorkspaceTypeInputs, settings \in {None} :
        LET r == create_workspace(db, nextId, user_id, name, workspace_type, settings)
        IN  /\ CanCreate(r)
            /\ db' = r.db
            /\ Allocate(r)
            /\ uow' = UoW_after_scope(r.db)
            /\ UNCHANGED <<call, loop>>
            /\ lastOp' = Op("create_workspace", r, "")

UpdateWorkspace ==
    \E workspace_id \in WorkspaceIdInputs, user_id \in CallerIdInputs,
       name \in OptionsOf({blankName}), settings \in {None} :
        LET r == update_workspace(db, workspace_id, user_id, name, settings)
            note == IF /\ name = Some(blankName)
                       /\ \E w \in db.workspaces :
                             w.id = workspace_id /\ w.user_profile_id = user_id
                    THEN "blank name by the owner" ELSE ""
        IN  /\ db' = r.db
            /\ uow' = UoW_after_scope(r.db)
            /\ UNCHANGED <<call, loop>>
            /\ lastOp' = Op("update_workspace", r, note)
            /\ UNCHANGED nextId

GetWorkspace ==
    \E workspace_id \in WorkspaceIdInputs, user_id \in OptionsOf(CallerIdInputs) :
        LET r == get_workspace(db, workspace_id, user_id)
        IN  /\ db' = r.db
            /\ uow' = UoW_after_scope(r.db)
            /\ UNCHANGED <<call, loop>>
            /\ lastOp' = Op("get_workspace", r, "")
            /\ UNCHANGED nextId

GetWorkspaceStats ==
    \E workspace_id \in WorkspaceIdInputs :
        LET r == get_workspace_stats(db, workspace_id)
            note == IF r.res # "ok" THEN ""
                    ELSE IF Val(r.ret).repos > 0 /\ Val(r.ret).vaults = 0 THEN "repos only"
                    ELSE IF Val(r.ret).repos = 0 /\ Val(r.ret).vaults = 0 THEN "no resources"
                    ELSE "other"
        IN  /\ db' = r.db
            /\ uow' = UoW_after_scope(r.db)
            /\ UNCHANGED <<call, loop>>
            /\ lastOp' = Op("get_workspace_stats", r, note)
            /\ UNCHANGED nextId

DeleteWorkspace ==
    \E workspace_id \in WorkspaceIdInputs, user_id \in CallerIdInputs :
        LET r == delete_workspace(db, workspace_id, user_id)
            note == IF count_resources(db, workspace_id).repos > 0
                       /\ count_resources(db, workspace_id).vaults > 0
                    THEN "has repos and vaults" ELSE ""
        IN  /\ db' = r.db
            /\ uow' = UoW_after_scope(r.db)
            /\ UNCHANGED <<call, loop>>
            /\ lastOp' = Op("delete_workspace", r, note)
            /\ UNCHANGED nextId

CreateRepo ==
    \E workspace_id \in WorkspaceIdInputs, user_id \in CallerIdInputs,
       name \in ResourceNameInputs, path \in PathInputs, metadata \in MetadataInputs :
        LET r == create_repo(db, nextId, workspace_id, user_id, name, path, None, metadata)
        IN  /\ CanCreate(r)
            /\ db' = r.db
            /\ Allocate(r)
            /\ uow' = UoW_after_scope(r.db)
            /\ UNCHANGED <<call, loop>>
            /\ lastOp' = Op("create_repo", r, "")

UpdateRepo ==
    \E repo_id \in RepoIdInputs, user_id \in CallerIdInputs,
       name \in OptionsOf({proj2}), metadata \in MetadataInputs :
        LET r == update_repo(db, repo_id, user_id, name, None, None, metadata)
        IN  /\ db' = r.db
            /\ uow' = UoW_after_scope(r.db)
            /\ UNCHANGED <<call, loop>>
            /\ lastOp' = Op("update_repo", r, "")
            /\ UNCHANGED nextId

GetRepo ==
    \E repo_id \in RepoIdInputs, user_id \in OptionsOf(CallerIdInputs) :
        LET r == get_repo(db, repo_id, user_id)
        IN  /\ db' = r.db
            /\ uow' = UoW_after_scope(r.db)
            /\ UNCHANGED <<call, loop>>
            /\ lastOp' = Op("get_repo", r, "")
            /\ UNCHANGED nextId

ListWorkspaceRepos ==
    \E workspace_id \in WorkspaceIdInputs, user_id \in OptionsOf(CallerIdInputs) :
        LET r == list_workspace_repos(db, workspace_id, user_id)
        IN  /\ db' = r.db
            /\ uow' = UoW_after_scope(r.db)
            /\ UNCHANGED <<call, loop>>
            /\ lastOp' = Op("list_workspace_repos", r,
                            IF IsNone(user_id) THEN "no user_id" ELSE "")
            /\ UNCHANGED nextId

DeleteRepo ==
    \E repo_id \in RepoIdInputs, user_id \in CallerIdInputs :
        LET r == delete_repo(db, repo_id, user_id)
        IN  /\ db' = r.db
            /\ uow' = UoW_after_scope(r.db)
            /\ UNCHANGED <<call, loop>>
            /\ lastOp' = Op("delete_repo", r, "")
            /\ UNCHANGED nextId

SyncWithRemote ==
    \E repo_id \in RepoIdInputs, user_id \in CallerIdInputs :
        LET r == sync_with_remote(db, repo_id, user_id)
        IN  /\ db' = r.db
            /\ uow' = UoW_after_scope(r.db)
            /\ UNCHANGED <<call, loop>>
            /\ lastOp' = Op("sync_with_remote", r, "")
            /\ UNCHANGED nextId

CreateVault ==
    \E workspace_id \in WorkspaceIdInputs, user_id \in CallerIdInputs,
       name \in ResourceNameInputs, metadata \in MetadataInputs :
        LET r == create_vault(db, nextId, workspace_id, user_id, name, somePath, metadata)
        IN  /\ CanCreate(r)
            /\ db' = r.db
            /\ Allocate(r)
            /\ uow' = UoW_after_scope(r.db)
            /\ UNCHANGED <<call, loop>>
            /\ lastOp' = Op("create_vault", r, "")

UpdateVault ==
    \E vault_id \in VaultIdInputs, user_id \in CallerIdInputs,
       name \in OptionsOf({proj2}), metadata \in MetadataInputs :
        LET r == update_vault(db, vault_id, user_id, name, None, metadata)
        IN  /\ db' = r.db
            /\ uow' = UoW_after_scope(r.db)
            /\ UNCHANGED <<call, loop>>
            /\ lastOp' = Op("update_vault", r, "")
            /\ UNCHANGED nextId

GetVault ==
    \E vault_id \in VaultIdInputs, user_id \in OptionsOf(CallerIdInputs) :
        LET r == get_vault(db, vault_id, user_id)
        IN  /\ db' = r.db
            /\ uow' = UoW_after_scope(r.db)
            /\ UNCHANGED <<call, loop>>
            /\ lastOp' = Op("get_vault", r, "")
            /\ UNCHANGED nextId

ListWorkspaceVaults ==
    \E workspace_id \in WorkspaceIdInputs, user_id \in OptionsOf(CallerIdInputs) :
        LET r == list_workspace_vaults(db, workspace_id, user_id)
        IN  /\ db' = r.db
            /\ uow' = UoW_after_scope(r.db)
            /\ UNCHANGED <<call, loop>>
            /\ lastOp' = Op("list_workspace_vaults", r,
                            IF IsNone(user_id) THEN "no user_id" ELSE "")
            /\ UNCHANGED nextId

DeleteVault ==
    \E vault_id \in VaultIdInputs, user_id \in CallerIdInputs :
        LET r == delete_vault(db, vault_id, user_id)
        IN  /\ db' = r.db
            /\ uow' = UoW_after_scope(r.db)
            /\ UNCHANGED <<call, loop>>
            /\ lastOp' = Op("delete_vault", r, "")
            /\ UNCHANGED nextId

LockVault ==
    \E vault_id \in VaultIdInputs, user_id \in CallerIdInputs :
        LET r == lock_vault(db, vault_id, user_id)
        IN  /\ db' = r.db
            /\ uow' = UoW_after_scope(r.db)
            /\ UNCHANGED <<call, loop>>
            /\ lastOp' = Op("lock_vault", r, "")
            /\ UNCHANGED nextId

UnlockVault ==
    \E vault_id \in VaultIdInputs, user_id \in CallerIdInputs :
        LET r == unlock_vault(db, vault_id, user_id)
        IN  /\ db' = r.db
            /\ uow' = UoW_after_scope(r.db)
            /\ UNCHANGED <<call, loop>>
            /\ lastOp' = Op("unlock_vault", r, "")
            /\ UNCHANGED nextId

Next ==
    \/ CreateUserProfile
    \/ UpdateUserProfile
    \/ GetUserProfile
    \/ DeleteUserProfile
    \/ CreateWorkspace
    \/ UpdateWorkspace
    \/ GetWorkspace
    \/ GetWorkspaceStats
    \/ DeleteWorkspace
    \/ CreateRepo
    \/ UpdateRepo
    \/ GetRepo
    \/ ListWorkspaceRepos
    \/ DeleteRepo
    \/ SyncWithRemote
    \/ CreateVault
    \/ UpdateVault
    \/ GetVault
    \/ ListWorkspaceVaults
    \/ DeleteVault
    \/ LockVault
    \/ UnlockVault

Spec == Init /\ [][Next]_vars

(***************************************************************************)
(* The limits are reached from stores that are filled close to them; this  *)
(* specification runs the creating and deleting calls on those stores.     *)
(***************************************************************************)
FullStores ==
    { Seed(MaxWorkspacesPerUser - 1, MaxReposPerWorkspace - 1, MaxVaultsPerWorkspace - 1),
      Seed(MaxWorkspacesPerUser, MaxReposPerWorkspace, MaxVaultsPerWorkspace) }

InitLimits ==
    /\ db \in FullStores
    /\ nextId = FirstNewId
    /\ lastOp = NoOp
    /\ uow = UoW_init(db)
    /\ call = NoCall
    /\ loop = NoLoop

NextLimits ==
    \/ CreateWorkspace
    \/ DeleteWorkspace
    \/ CreateRepo
    \/ DeleteRepo
    \/ CreateVault
    \/ DeleteVault

SpecLimits == InitLimits /\ [][NextLimits]_vars

(***************************************************************************)
(* A caller that holds a unit of work and uses its repositories directly,  *)
(* as demos/demo_repositories.py does: it enters and leaves the scope,     *)
(* saves and reads through uow.user_profiles, commits and rolls back, in   *)
(* any order, also before the first scope and after a scope has been left. *)
(***************************************************************************)
tempUser ==
    [id |-> FirstNewId, username |-> carol, email |-> carolMail, preferences |-> {},
     created_at |-> 1, updated_at |-> 1]

aliceWithTheme ==
    [id |-> 1, username |-> alice, email |-> aliceMail, preferences |-> darkTheme,
     created_at |-> 0, updated_at |-> 0]

UowUserProfiles == {tempUser, aliceWithTheme}

Scope(u) == IF u.open THEN "in scope" ELSE "outside scope"

UowEnter ==
    /\ ~uow.open
    /\ uow' = UoW_aenter(db, uow)
    /\ UNCHANGED <<call, loop>>
    /\ lastOp' = [op |-> "aenter", res |-> "ok", note |-> ""]
    /\ UNCHANGED <<db, nextId>>

\* the scope is left normally or by an exception raised in its body, which
\* __aexit__ lets through
UowExit ==
    /\ uow.open
    /\ \E exc \in {"ok", "Exception"} :
          LET r == UoW_aexit(db, uow)
          IN  /\ db' = r.db
              /\ uow' = r.uow
              /\ UNCHANGED <<call, loop>>
              /\ lastOp' = [op |-> "aexit", res |-> exc,
                            note |-> IF uow.rows # db THEN "uncommitted writes" ELSE ""]
    /\ UNCHANGED nextId

UowCommit ==
    LET r == UoW_commit(db, uow)
    IN  /\ db' = r.db
        /\ uow' = r.uow
        /\ UNCHANGED <<call, loop>>
        /\ lastOp' = [op |-> "commit", res |-> r.res, note |-> Scope(uow)]
        /\ UNCHANGED nextId

UowRollback ==
    LET r == UoW_rollback(db, uow)
    IN  /\ db' = r.db
        /\ uow' = r.uow
        /\ UNCHANGED <<call, loop>>
        /\ lastOp' = [op |-> "rollback", res |-> r.res, note |-> Scope(uow)]
        /\ UNCHANGED nextId

\* uow.user_profiles.save(e); before the first scope the attribute does not exist
UowSaveUserProfile ==
    \E e \in UowUserProfiles :
        IF ~uow.bound
        THEN /\ lastOp' = [op |-> "save", res |-> "AttributeError", note |-> Scope(uow)]
             /\ UNCHANGED <<db, nextId, uow, call, loop>>
        ELSE LET saved == save_user_profile(uow.rows, e)
             IN  /\ uow' = [uow EXCEPT !.rows = saved.s]
                 /\ UNCHANGED <<call, loop>>
                 /\ lastOp' = [op |-> "save", res |-> saved.res, note |-> Scope(uow)]
                 /\ UNCHANGED <<db, nextId>>

\* uow.user_profiles.username_exists(username)
UowUsernameExists ==
    \E username \in {alice, carol} :
        /\ UNCHANGED <<call, loop>>
        /\ lastOp' = IF ~uow.bound
                     THEN [op |-> "username_exists", res |-> "AttributeError", note |-> ""]
                     ELSE [op |-> "username_exists", res |-> "ok",
                           note |-> IF username_exists(uow.rows, username, None)
                                    THEN "True" ELSE "False"]
        /\ UNCHANGED <<db, nextId, uow>>

\* Entities a caller hands to save.  A new entity carries the instant of its
\* construction in created_at and updated_at; an entity read from the store
\* and changed by a model method carries the instant of the change in
\* updated_at; one changed by plain assignment keeps the stored updated_at.
someText == <<"d","o","c">>

someUrl == <<"g","i","t","@","h",":","r">>

newWorkspace ==
    [id |-> FirstNewId, name |-> labName, description |-> None, user_profile_id |-> 1,
     workspace_type |-> "general", settings |-> darkTheme, shared_resources |-> {},
     created_at |-> 1, updated_at |-> 1]

\* workspace 11 after update_description(someText)
describedWorkspace ==
    [Workspace_entity(WorkspaceRow(11, 1, labName)) EXCEPT
        !.description = Some(someText), !.updated_at = 1]

\* workspace 11 after workspace.description = someText
assignedWorkspace ==
    [Workspace_entity(WorkspaceRow(11, 1, labName)) EXCEPT !.description = Some(someText)]

\* workspace 11 after add_shared_resource(101, "repo")
sharingWorkspace ==
    [Workspace_entity(WorkspaceRow(11, 1, labName)) EXCEPT
        !.shared_resources = {<<"repo", <<101>>>>}, !.updated_at = 1]

UowWorkspaces == {newWorkspace, describedWorkspace, assignedWorkspace, sharingWorkspace}

newRepo ==
    [id |-> FirstNewId, name |-> proj2, path |-> somePath, workspace_id |-> 11,
     remote_url |-> Some(someUrl), created_at |-> 1, updated_at |-> 1]

\* repo 101 after update_remote_url(someUrl)
remoteRepo ==
    [Repo_entity(RepoRow(101, 11, proj1)) EXCEPT
        !.remote_url = Some(someUrl), !.updated_at = 1]

\* repo 101 after repo.name = proj2
assignedRepo == [Repo_entity(RepoRow(101, 11, proj1)) EXCEPT !.name = proj2]

UowRepos == {newRepo, remoteRepo, assignedRepo}

newVault ==
    [id |-> FirstNewId, name |-> proj2, path |-> somePath, workspace_id |-> 11,
     created_at |-> 1, updated_at |-> 1]

\* vault 111 after rename(proj2)
renamedVault ==
    [Vault_entity(VaultRow(111, 11, proj1)) EXCEPT !.name = proj2, !.updated_at = 1]

\* vault 111 after vault.name = proj2
assignedVault == [Vault_entity(VaultRow(111, 11, proj1)) EXCEPT !.name = proj2]

UowVaults == {newVault, renamedVault, assignedVault}

\* uow.workspaces.save(e), for an entity whose owner is stored
UowSaveWorkspace ==
    \E e \in UowWorkspaces :
        /\ uow.bound
        /\ Exists(uow.rows.user_profiles, e.user_profile_id)
        /\ LET saved == save_workspace(uow.rows, e)
           IN  /\ uow' = [uow EXCEPT !.rows = saved.s]
               /\ UNCHANGED <<call, loop>>
               /\ lastOp' = [op |-> "save", res |-> saved.res, note |-> Scope(uow)]
               /\ UNCHANGED <<db, nextId>>

\* uow.repos.save(e), for an entity whose workspace is stored
UowSaveRepo ==
    \E e \in UowRepos :
        /\ uow.bound
        /\ Exists(uow.rows.workspaces, e.workspace_id)
        /\ LET saved == save_repo(uow.rows, e)
           IN  /\ uow' = [uow EXCEPT !.rows = saved.s]
               /\ UNCHANGED <<call, loop>>
               /\ lastOp' = [op |-> "save", res |-> saved.res, note |-> Scope(uow)]
               /\ UNCHANGED <<db, nextId>>

\* uow.vaults.save(e), for an entity whose workspace is stored
UowSaveVault ==
    \E e \in UowVaults :
        /\ uow.bound
        /\ Exists(uow.rows.workspaces, e.workspace_id)
        /\ LET saved == save_vault(uow.rows, e)
           IN  /\ uow' = [uow EXCEPT !.rows = saved.s]
               /\ UNCHANGED <<call, loop>>
               /\ lastOp' = [op |-> "save", res |-> saved.res, note |-> Scope(uow)]
               /\ UNCHANGED <<db, nextId>>

NextUow ==
    \/ UowEnter
    \/ UowExit
    \/ UowCommit
    \/ UowRollback
    \/ UowSaveUserProfile
    \/ UowUsernameExists

SpecUow == Init /\ [][NextUow]_vars

\* The repositories of one unit of work: saves of the four aggregate types
\* inside a scope that is entered and rolled back but not committed.
NextRepositories ==
    \/ UowEnter
    \/ UowRollback
    \/ UowSaveUserProfile
    \/ UowSaveWorkspace
    \/ UowSaveRepo
    \/ UowSaveVault

SpecRepositories == Init /\ [][NextRepositories]_vars

(***************************************************************************)
(* The application layer: command and query buses wired by                 *)
(* ApplicationService (application/use_cases.py).  A command or query is a *)
(* record of its fields with its class in "type" and the classes it        *)
(* inherits from in "bases"; a handler is named by its class.              *)
(***************************************************************************)
\* get_by_username / get_by_email of the user profile repository
get_by_username(s, username) == {u \in s.user_profiles : u.username = username}

get_by_email(s, email) == {u \in s.user_profiles : u.email = email}

get_user_profile_by_username(d, username) ==
    aexit(d, IF get_by_username(d, username) = {}
             THEN Raised(d, "UserProfileNotFoundError")
             ELSE Returned(d, Some(CHOOSE u \in get_by_username(d, username) : TRUE)))

get_user_profile_by_email(d, email) ==
    aexit(d, IF get_by_email(d, email) = {}
             THEN Raised(d, "UserProfileNotFoundError")
             ELSE Returned(d, Some(CHOOSE u \in get_by_email(d, email) : TRUE)))

list_user_workspaces(d, user_id, workspace_type) ==
    aexit(d, IF ~Exists(d.user_profiles, user_id)
             THEN Raised(d, "UserProfileNotFoundError")
             ELSE Returned(d, Some({Workspace_entity(w) : w \in
                     {w \in d.workspaces :
                         /\ w.user_profile_id = user_id
                         /\ (IsNone(workspace_type) \/ w.workspace_type = Val(workspace_type))}})))

\* The DTO a handler builds from the entity a service returned.  UserProfileDTO
\* and WorkspaceDTO copy fields the entity has; RepoDTO and VaultDTO read
\* repo.metadata / vault.metadata, which the entity does not have.
UserProfileDTO(r) ==
    IF r.res # "ok" THEN r
    ELSE [r EXCEPT !.ret = {[id |-> e.id, username |-> e.username, email |-> e.email,
                             preferences |-> e.preferences, created_at |-> e.created_at,
                             updated_at |-> e.updated_at] : e \in r.ret}]

WorkspaceDTO(r) ==
    IF r.res # "ok" THEN r
    ELSE [r EXCEPT !.ret = {[id |-> e.id, name |-> e.name,
                             user_profile_id |-> e.user_profile_id,
                             workspace_type |-> e.workspace_type,
                             description |-> e.description, settings |-> e.settings,
                             shared_resources |-> e.shared_resources,
                             created_at |-> e.created_at, updated_at |-> e.updated_at]
                            : e \in r.ret}]

WorkspaceDTOs(r) ==
    IF r.res # "ok" THEN r
    ELSE [r EXCEPT !.ret = Some({[id |-> e.id, name |-> e.name,
                                  user_profile_id |-> e.user_profile_id,
                                  workspace_type |-> e.workspace_type,
                                  description |-> e.description, settings |-> e.settings,
                                  shared_resources |-> e.shared_resources,
                                  created_at |-> e.created_at, updated_at |-> e.updated_at]
                                 : e \in Val(r.ret)})]

ResourceDTO(r) ==
    IF r.res # "ok" THEN r ELSE [r EXCEPT !.res = "AttributeError", !.ret = None]

ResourceDTOs(r) ==
    IF r.res # "ok" \/ Val(r.ret) = {} THEN r
    ELSE [r EXCEPT !.res = "AttributeError", !.ret = None]

\* handle of each command handler: the service call on the command's fields
CommandHandler_handle(handler, d, new_id, c) ==
    CASE handler = "CreateUserProfileHandler" ->
            UserProfileDTO(create_user_profile(d, new_id, c.username, c.email, c.preferences))
      [] handler = "UpdateUserProfileHandler" ->
            UserProfileDTO(update_user_profile(d, c.user_id, c.username, c.email,
                                               c.preferences))
      [] handler = "DeleteUserProfileHandler" -> delete_user_profile(d, c.user_id)
      [] handler = "CreateWorkspaceHandler" ->
            WorkspaceDTO(create_workspace(d, new_id, c.user_id, c.name, c.workspace_type,
                                          c.settings))
      [] handler = "UpdateWorkspaceHandler" ->
            WorkspaceDTO(update_workspace(d, c.workspace_id, c.user_id, c.name, c.settings))
      [] handler = "DeleteWorkspaceHandler" -> delete_workspace(d, c.workspace_id, c.user_id)
      [] handler = "CreateRepoHandler" ->
            ResourceDTO(create_repo(d, new_id, c.workspace_id, c.user_id, c.name, c.path,
                                    c.remote_url, c.metadata))
      [] handler = "UpdateRepoHandler" ->
            ResourceDTO(update_repo(d, c.repo_id, c.user_id, c.name, c.path, c.remote_url,
                                    c.metadata))
      [] handler = "DeleteRepoHandler" -> delete_repo(d, c.repo_id, c.user_id)
      [] handler = "SyncRepoHandler" -> ResourceDTO(sync_with_remote(d, c.repo_id, c.user_id))
      [] handler = "CreateVaultHandler" ->
            ResourceDTO(create_vault(d, new_id, c.workspace_id, c.user_id, c.name, c.path,
                                     c.metadata))
      [] handler = "UpdateVaultHandler" ->
            ResourceDTO(update_vault(d, c.vault_id, c.user_id, c.name, c.path, c.metadata))
      [] handler = "DeleteVaultHandler" -> delete_vault(d, c.vault_id, c.user_id)
      [] handler = "LockVaultHandler" -> ResourceDTO(lock_vault(d, c.vault_id, c.user_id))
      [] handler = "UnlockVaultHandler" -> ResourceDTO(unlock_vault(d, c.vault_id, c.user_id))

\* handle of each query handler
QueryHandler_handle(handler, d, q) ==
    CASE handler = "GetUserProfileHandler" -> UserProfileDTO(get_user_profile(d, q.user_id))
      [] handler = "GetUserProfileByUsernameHandler" ->
            UserProfileDTO(get_user_profile_by_username(d, q.username))
      [] handler = "GetUserProfileByEmailHandler" ->
            UserProfileDTO(get_user_profile_by_email(d, q.email))
      [] handler = "GetWorkspaceHandler" ->
            WorkspaceDTO(get_workspace(d, q.workspace_id, q.user_id))
      [] handler = "ListUserWorkspacesHandler" ->
            WorkspaceDTOs(list_user_workspaces(d, q.user_id, q.workspace_type))
      [] handler = "GetWorkspaceStatsHandler" ->
            GetWorkspaceStatsHandler_handle(d, q.workspace_id)
      [] handler = "GetRepoHandler" -> ResourceDTO(get_repo(d, q.repo_id, q.user_id))
      [] handler = "ListWorkspaceReposHandler" ->
            ResourceDTOs(list_workspace_repos(d, q.workspace_id, q.user_id))
      [] handler = "GetVaultHandler" -> ResourceDTO(get_vault(d, q.vault_id, q.user_id))
      [] handler = "ListWorkspaceVaultsHandler" ->
            ResourceDTOs(list_workspace_vaults(d, q.workspace_id, q.user_id))

\* CommandBus() / QueryBus(): no handler registered
Bus_init == <<>>

\* register: self._handlers[type] = handler
Bus_register(handlers, type, handler) ==
    [t \in DOMAIN handlers \cup {type} |-> IF t = type THEN handler ELSE handlers[t]]

RECURSIVE Bus_register_all(_, _)
Bus_register_all(handlers, wiring) ==
    IF wiring = <<>> THEN handlers
    ELSE Bus_register_all(Bus_register(handlers, Head(wiring)[1], Head(wiring)[2]),
                          Tail(wiring))

\* _setup_handlers: the registrations in the order the code makes them
CommandWiring ==
    << <<"CreateUserProfileCommand", "CreateUserProfileHandler">>,
       <<"UpdateUserProfileCommand", "UpdateUserProfileHandler">>,
       <<"DeleteUserProfileCommand", "DeleteUserProfileHandler">>,
       <<"CreateWorkspaceCommand", "CreateWorkspaceHandler">>,
       <<"UpdateWorkspaceCommand", "UpdateWorkspaceHandler">>,
       <<"DeleteWorkspaceCommand", "DeleteWorkspaceHandler">>,
       <<"CreateRepoCommand", "CreateRepoHandler">>,
       <<"UpdateRepoCommand", "UpdateRepoHandler">>,
       <<"DeleteRepoCommand", "DeleteRepoHandler">>,
       <<"SyncRepoCommand", "SyncRepoHandler">>,
       <<"CreateVaultCommand", "CreateVaultHandler">>,
       <<"UpdateVaultCommand", "UpdateVaultHandler">>,
       <<"DeleteVaultCommand", "DeleteVaultHandler">>,
       <<"LockVaultCommand", "LockVaultHandler">>,
       <<"UnlockVaultCommand", "UnlockVaultHandler">> >>

QueryWiring ==
    << <<"GetUserProfileQuery", "GetUserProfileHandler">>,
       <<"GetUserProfileByUsernameQuery", "GetUserProfileByUsernameHandler">>,
       <<"GetUserProfileByEmailQuery", "GetUserProfileByEmailHandler">>,
       <<"GetWorkspaceQuery", "GetWorkspaceHandler">>,
       <<"ListUserWorkspacesQuery", "ListUserWorkspacesHandler">>,
       <<"GetWorkspaceStatsQuery", "GetWorkspaceStatsHandler">>,
       <<"GetRepoQuery", "GetRepoHandler">>,
       <<"ListWorkspaceReposQuery", "ListWorkspaceReposHandler">>,
       <<"GetVaultQuery", "GetVaultHandler">>,
       <<"ListWorkspaceVaultsQuery", "ListWorkspaceVaultsHandler">> >>

ApplicationService_commands == Bus_register_all(Bus_init, CommandWiring)

ApplicationService_queries == Bus_register_all(Bus_init, QueryWiring)

\* the command and query classes that use_cases.py imports
CommandTypes ==
    {"CreateRepoCommand", "DeleteRepoCommand", "SyncRepoCommand", "UpdateRepoCommand",
     "CreateUserProfileCommand", "DeleteUserProfileCommand", "UpdateUserProfileCommand",
     "CreateVaultCommand", "DeleteVaultCommand", "LockVaultCommand", "UnlockVaultCommand",
     "UpdateVaultCommand", "CreateWorkspaceCommand", "DeleteWorkspaceCommand",
     "UpdateWorkspaceCommand"}

QueryTypes ==
    {"GetRepoQuery", "ListWorkspaceReposQuery", "GetUserProfileByEmailQuery",
     "GetUserProfileByUsernameQuery", "GetUserProfileQuery", "GetVaultQuery",
     "ListWorkspaceVaultsQuery", "GetWorkspaceQuery", "GetWorkspaceStatsQuery",
     "ListUserWorkspacesQuery"}

\* execute that looks the handler up by isinstance instead of by type(command)
CommandBus_execute_by_isinstance(handlers, d, new_id, command) ==
    LET matching == {t \in DOMAIN handlers : t = command.type \/ t \in command.bases}
    IN  IF matching = {}
        THEN [res |-> "ValueError", ret |-> None, db |-> d, invoked |-> <<>>]
        ELSE LET handler == handlers[CHOOSE t \in matching : TRUE]
             IN  CommandHandler_handle(handler, d, new_id, command)
                 @@ [invoked |-> <<handler>>]

\* execute returns [res, ret, db, invoked]: invoked lists the handlers called
CommandBus_execute(handlers, d, new_id, command) ==
    IF command.type \notin DOMAIN handlers
    THEN [res |-> "ValueError", ret |-> None, db |-> d, invoked |-> <<>>]
    ELSE LET handler == handlers[command.type]
         IN  CommandHandler_handle(handler, d, new_id, command) @@ [invoked |-> <<handler>>]

QueryBus_execute(handlers, d, query) ==
    IF query.type \notin DOMAIN handlers
    THEN [res |-> "ValueError", ret |-> None, db |-> d, invoked |-> <<>>]
    ELSE LET handler == handlers[query.type]
             r == QueryHandler_handle(handler, d, query)
         IN  [res |-> r.res, ret |-> r.ret, db |-> r.db, invoked |-> <<handler>>]

\* one command of every class, the fields a caller fills in
CommandInputs ==
    << [type |-> "CreateUserProfileCommand", bases |-> {"Command"}, username |-> carol,
       email |-> carolMail, preferences |-> None],
      [type |-> "UpdateUserProfileCommand", bases |-> {"Command"}, user_id |-> 1,
       username |-> None, email |-> None, preferences |-> Some(darkTheme)],
      [type |-> "DeleteUserProfileCommand", bases |-> {"Command"}, user_id |-> 2],
      [type |-> "CreateWorkspaceCommand", bases |-> {"Command"}, user_id |-> 1,
       name |-> labName, workspace_type |-> "research", settings |-> None],
      [type |-> "UpdateWorkspaceCommand", bases |-> {"Command"}, workspace_id |-> 11,
       user_id |-> 1, name |-> Some(labName), settings |-> None],
      [type |-> "DeleteWorkspaceCommand", bases |-> {"Command"}, workspace_id |-> 12,
       user_id |-> 1],
      [type |-> "CreateRepoCommand", bases |-> {"Command"}, workspace_id |-> 11,
       user_id |-> 1, name |-> proj2, path |-> Some(somePath), remote_url |-> None,
       metadata |-> None],
      [type |-> "UpdateRepoCommand", bases |-> {"Command"}, repo_id |-> 101, user_id |-> 1,
       name |-> Some(proj2), path |-> None, remote_url |-> None, metadata |-> None],
      [type |-> "DeleteRepoCommand", bases |-> {"Command"}, repo_id |-> 101, user_id |-> 1],
      [type |-> "SyncRepoCommand", bases |-> {"Command"}, repo_id |-> 101, user_id |-> 1],
      [type |-> "CreateVaultCommand", bases |-> {"Command"}, workspace_id |-> 11,
       user_id |-> 1, name |-> proj2, path |-> somePath, metadata |-> None],
      [type |-> "UpdateVaultCommand", bases |-> {"Command"}, vault_id |-> 111, user_id |-> 1,
       name |-> Some(proj2), path |-> None, metadata |-> None],
      [type |-> "DeleteVaultCommand", bases |-> {"Command"}, vault_id |-> 111, user_id |-> 1],
      [type |-> "LockVaultCommand", bases |-> {"Command"}, vault_id |-> 111, user_id |-> 1],
      [type |-> "UnlockVaultCommand", bases |-> {"Command"}, vault_id |-> 111, user_id |-> 1] >>

QueryInputs ==
    << [type |-> "GetUserProfileQuery", bases |-> {"Query"}, user_id |-> 2],
      [type |-> "GetUserProfileByUsernameQuery", bases |-> {"Query"}, username |-> carol],
      [type |-> "GetUserProfileByEmailQuery", bases |-> {"Query"}, email |-> bobMail],
      [type |-> "GetWorkspaceQuery", bases |-> {"Query"}, workspace_id |-> 12,
       user_id |-> None],
      [type |-> "ListUserWorkspacesQuery", bases |-> {"Query"}, user_id |-> 1,
       workspace_type |-> None],
      [type |-> "GetWorkspaceStatsQuery", bases |-> {"Query"}, workspace_id |-> 11],
      [type |-> "GetRepoQuery", bases |-> {"Query"}, repo_id |-> 101, user_id |-> None],
      [type |-> "ListWorkspaceReposQuery", bases |-> {"Query"}, workspace_id |-> 11,
       user_id |-> None],
      [type |-> "GetVaultQuery", bases |-> {"Query"}, vault_id |-> 111, user_id |-> None],
      [type |-> "ListWorkspaceVaultsQuery", bases |-> {"Query"}, workspace_id |-> 11,
       user_id |-> None] >>

\* a caller's own subclass of a wired command: its type is not a wired type
subclassCommand ==
    [type |-> "AuditedDeleteWorkspaceCommand",
     bases |-> {"DeleteWorkspaceCommand", "Command"}, workspace_id |-> 21, user_id |-> 2]

\* objects handed to a bus that has no handler for their type: the subclass,
\* and a command handed to the query bus or a query to the command bus
IsStatsQuery(q) == q.type = "GetWorkspaceStatsQuery"

IsDeleteRepoCommand(c) == c.type = "DeleteRepoCommand"

CommandBusInputs ==
    CommandInputs \o <<subclassCommand>> \o SelectSeq(QueryInputs, IsStatsQuery)

QueryBusInputs == QueryInputs \o SelectSeq(CommandInputs, IsDeleteRepoCommand)

StoredIds(s) == Ids(s.user_profiles) \cup Ids(s.workspaces) \cup Ids(s.repos) \cup Ids(s.vaults)

Invoked(r, none) == IF r.invoked = <<>> THEN none ELSE r.invoked[1]

\* app.commands.execute(command)
CommandBusExecute ==
    \E i \in DOMAIN CommandBusInputs :
      \E r \in {CommandBus_execute(ApplicationService_commands, db, nextId, CommandBusInputs[i])} :
        LET command == CommandBusInputs[i]
            created == nextId \in StoredIds(r.db)
        IN  /\ created => nextId \in NewIds
            /\ nextId' = IF created THEN nextId + 1 ELSE nextId
            /\ db' = r.db
            /\ uow' = UoW_after_scope(r.db)
            /\ UNCHANGED <<call, loop>>
            /\ lastOp' = [op |-> command.type, res |-> r.res,
                          note |-> Invoked(r, "no command handler")]

\* app.queries.execute(query)
QueryBusExecute ==
    \E i \in DOMAIN QueryBusInputs :
        LET query == QueryBusInputs[i]
            r == QueryBus_execute(ApplicationService_queries, db, query)
        IN  /\ db' = r.db
            /\ uow' = UoW_after_scope(r.db)
            /\ UNCHANGED <<call, loop>>
            /\ lastOp' = [op |-> query.type, res |-> r.res,
                          note |-> Invoked(r, "no query handler")]
            /\ UNCHANGED nextId

NextBus ==
    \/ CommandBusExecute
    \/ QueryBusExecute

SpecBus == Init /\ [][NextBus]_vars

(***************************************************************************)
(* Direct construction of a UserProfile: the arguments are drawn from all  *)
(* strings up to a length over a small alphabet, and the constructor is    *)
(* applied to them.                                                        *)
(***************************************************************************)
MaxUsernameInputLen == 3

MaxEmailInputLen == 4

RECURSIVE StringsUpTo(_, _)
StringsUpTo(alphabet, n) ==
    IF n = 0 THEN {<<>>}
    ELSE LET shorter == StringsUpTo(alphabet, n - 1)
         IN  shorter \cup {Append(str, c) : str \in shorter, c \in alphabet}

\* a letter, a digit, the underscore and a character that is none of them
UsernameAlphabet == {"a", "1", "_", "-"}

EmailAlphabet == {"a", "@", "."}

UsernameInputs == StringsUpTo(UsernameAlphabet, MaxUsernameInputLen)

EmailInputs == StringsUpTo(EmailAlphabet, MaxEmailInputLen)

InitUserProfile ==
    /\ db = EmptyDB
    /\ nextId = FirstNewId
    /\ lastOp = NoOp
    /\ uow = UoW_init(db)
    /\ loop = NoLoop
    /\ \E username \in UsernameInputs, email \in EmailInputs :
          call = [fn |-> "UserProfile", args |-> <<username, email>>,
                  res |-> "not called", msg |-> "", obj |-> None]

\* UserProfile(username=call.args[1], email=call.args[2])
UserProfileConstruct ==
    /\ call.fn = "UserProfile"
    /\ call.res = "not called"
    /\ LET made == UserProfile_new(call.args[1], call.args[2])
       IN  call' = [call EXCEPT !.res = made.res, !.msg = made.msg, !.obj = made.obj]
    /\ UNCHANGED <<db, nextId, lastOp, uow, loop>>

NextUserProfile == UserProfileConstruct

SpecUserProfile == InitUserProfile /\ [][NextUserProfile]_vars

(***************************************************************************)
(* Direct construction of a Repo and Repo.update_remote_url: the remote    *)
(* URLs are the ones demos/demo_domain_models.py tries and every prefix of  *)
(* interest followed by a short string.                                    *)
(***************************************************************************)
MaxUrlBodyLen == 2

\* the remote URLs of demo_repo_model: five it expects to be valid, then
\* 'not-a-url', 'ftp://invalid.com/repo' and '/local/path'
DemoUrls ==
    { <<"h","t","t","p","s",":","/","/","g","i","t","h","u","b",".","c","o","m","/","u",
      "s","e","r","/","r","e","p","o",".","g","i","t">>,
      <<"g","i","t","@","g","i","t","h","u","b",".","c","o","m",":","u","s","e","r","/",
      "r","e","p","o",".","g","i","t">>,
      <<"s","s","h",":","/","/","g","i","t","@","g","i","t","h","u","b",".","c","o","m",
      "/","u","s","e","r","/","r","e","p","o",".","g","i","t">>,
      <<"g","i","t",":","/","/","g","i","t","h","u","b",".","c","o","m","/","u","s","e",
      "r","/","r","e","p","o",".","g","i","t">>,
      <<"u","s","e","r","@","h","o","s","t",":","p","a","t","h","/","t","o","/","r","e",
      "p","o",".","g","i","t">>,
      <<"n","o","t","-","a","-","u","r","l">>,
      <<"f","t","p",":","/","/","i","n","v","a","l","i","d",".","c","o","m","/","r","e",
      "p","o">>,
      <<"/","l","o","c","a","l","/","p","a","t","h">> }

\* the accepted prefixes, no prefix, another scheme and a leading slash
UrlPrefixInputs == UrlPrefixes \cup {<<>>, <<"f","t","p",":","/","/">>, <<"/">>}

UrlInputs ==
    DemoUrls
    \cup ({prefix \o body : prefix \in UrlPrefixInputs,
                           body \in StringsUpTo({"a", "@", ":"}, MaxUrlBodyLen)} \ {<<>>})

\* <<remote_url of the constructor, remote_url of the update>>
InitRepo ==
    /\ db = EmptyDB
    /\ nextId = FirstNewId
    /\ lastOp = NoOp
    /\ uow = UoW_init(db)
    /\ loop = NoLoop
    /\ \E remote_url \in UrlInputs, new_url \in UrlInputs :
          call = [fn |-> "Repo", args |-> <<Some(remote_url), Some(new_url)>>,
                  res |-> "not called", msg |-> "", obj |-> None]

\* Repo(name=proj1, path=somePath, remote_url=call.args[1])
RepoConstruct ==
    /\ call.fn = "Repo"
    /\ call.res = "not called"
    /\ LET made == Repo_new(proj1, somePath, call.args[1], 1)
       IN  call' = [call EXCEPT !.res = made.res, !.msg = made.msg, !.obj = made.obj]
    /\ UNCHANGED <<db, nextId, lastOp, uow, loop>>

\* repo.update_remote_url(call.args[2]) on the constructed repo, at a later instant
RepoUpdateRemoteUrl ==
    /\ call.fn = "Repo"
    /\ call.res = "ok"
    /\ LET repo == Val(call.obj)
           updated == Repo_update_remote_url(repo, call.args[2], repo.updated_at + 1)
       IN  call' = [call EXCEPT !.fn = "update_remote_url", !.res = updated.res,
                                !.msg = updated.msg, !.obj = updated.obj]
    /\ UNCHANGED <<db, nextId, lastOp, uow, loop>>

NextRepo ==
    \/ RepoConstruct
    \/ RepoUpdateRemoteUrl

SpecRepo == InitRepo /\ [][NextRepo]_vars

(***************************************************************************)
(* Service calls as concurrent asyncio tasks.  A task runs one service     *)
(* method; it gives way to the other tasks at its awaits, which are the    *)
(* repository calls, commit() and the close of the session in __aexit__.   *)
(* A session reads the committed rows and its own flushed rows (READ       *)
(* COMMITTED, the default of the engine connection.py creates); a flushed  *)
(* row is in session.pending until commit or close.                        *)
(***************************************************************************)
SessionView(d, pending) ==
    [table \in DOMAIN d |->
        {r \in d[table] : r.id \notin Ids(pending[table])} \cup pending[table]]

\* a schema without unique indexes
UniqueColumns_none(table) == {}

\* unique=True columns of the ORM models (the unique indexes of the migration)
UniqueColumns(table) == IF table = "user_profiles" THEN {"username", "email"} ELSE {}

\* the awaited statements of each service method, in the order of its body
ServiceBody(op) ==
    CASE op = "create_user_profile" ->
            <<"username_exists", "email_exists", "save_user_profile", "commit">>
      [] op = "update_user_profile" ->
            <<"get_user_profile", "username_exists", "email_exists", "save_user_profile",
              "commit">>
      [] op = "create_workspace" ->
            <<"user_exists", "count_workspaces", "save_workspace", "commit">>
      [] op = "create_repo" ->
            <<"get_workspace", "count_resources", "name_exists", "save_repo", "commit">>
      [] op = "update_repo" ->
            <<"get_repo", "get_workspace", "name_exists", "save_repo", "commit">>
      [] op = "create_vault" ->
            <<"get_workspace", "count_resources", "name_exists", "save_vault", "commit">>
      [] op = "update_vault" ->
            <<"get_vault", "get_workspace", "name_exists", "save_vault", "commit">>

\* One awaited statement of task t with the code that follows it up to the
\* next await, on the rows the session sees: err is the error raised ("" for
\* none), local the entity the task holds afterwards, write the row flushed
\* as <<table, row>>.
RunStatement(stmt, t, view) ==
    LET c == t.call
        creating == c.op \in {"create_user_profile", "create_workspace", "create_repo",
                              "create_vault"}
        ofRepo == c.op \in {"create_repo", "update_repo"}
        held == Val(t.local)
        workspace_id == IF creating THEN c.workspace_id ELSE held.workspace_id
        Passed(local) == [err |-> "", local |-> local, write |-> None]
        Failed(err) == [err |-> err, local |-> t.local, write |-> None]
        Saved(table, saved, id) ==
            IF saved.res # "ok" THEN Failed(saved.res)
            ELSE [err |-> "", local |-> t.local,
                  write |-> Some(<<table, Val(Get(saved.s[table], id))>>)]
    IN
    CASE stmt = "get_user_profile" ->
            IF ~Exists(view.user_profiles, c.user_id)
            THEN Failed("UserProfileNotFoundError")
            ELSE Passed(get_user_profile_entity(view, c.user_id))
      [] stmt = "username_exists" ->
            IF creating
            THEN IF username_exists(view, Val(c.username), None)
                 THEN Failed("UsernameAlreadyExistsError") ELSE Passed(t.local)
            ELSE IF ~(Truthy(c.username) /\ Val(c.username) # held.username)
            THEN Passed(t.local)
            ELSE IF username_exists(view, Val(c.username), Some(c.user_id))
            THEN Failed("UsernameAlreadyExistsError")
            ELSE Passed(Some([held EXCEPT !.username = Val(c.username)]))
      [] stmt = "email_exists" ->
            IF creating
            THEN IF email_exists(view, Val(c.email), None)
                 THEN Failed("EmailAlreadyExistsError") ELSE Passed(t.local)
            ELSE IF ~(Truthy(c.email) /\ Val(c.email) # held.email)
            THEN Passed(t.local)
            ELSE IF email_exists(view, Val(c.email), Some(c.user_id))
            THEN Failed("EmailAlreadyExistsError")
            ELSE Passed(Some([held EXCEPT !.email = Val(c.email)]))
      [] stmt = "save_user_profile" ->
            IF ~creating /\ "update_timestamp" \notin UserProfileMethods
            THEN Failed("AttributeError")
            ELSE Saved("user_profiles", save_user_profile(view, held), held.id)
      [] stmt = "user_exists" ->
            IF ~Exists(view.user_profiles, c.user_id)
            THEN Failed("UserProfileNotFoundError") ELSE Passed(t.local)
      [] stmt = "count_workspaces" ->
            IF count_workspaces(view, c.user_id) >= MaxWorkspacesPerUser
            THEN Failed("WorkspaceLimitExceeded") ELSE Passed(t.local)
      [] stmt = "save_workspace" ->
            IF Workspace_post_init(Val(c.name), "general") # "ok"
            THEN Failed(Workspace_post_init(Val(c.name), "general"))
            ELSE Saved("workspaces",
                       save_workspace(view,
                           [id |-> t.new_id, name |-> Val(c.name), description |-> None,
                            user_profile_id |-> c.user_id, workspace_type |-> "general",
                            settings |-> {}, shared_resources |-> {},
                            created_at |-> Now(view), updated_at |-> Now(view)]),
                       t.new_id)
      [] stmt = "get_repo" ->
            IF ~Exists(view.repos, c.target)
            THEN Failed("RepoNotFoundError") ELSE Passed(get_repo_entity(view, c.target))
      [] stmt = "get_vault" ->
            IF ~Exists(view.vaults, c.target)
            THEN Failed("VaultNotFoundError") ELSE Passed(get_vault_entity(view, c.target))
      [] stmt = "get_workspace" ->
            IF creating /\ ~Exists(view.workspaces, workspace_id)
            THEN Failed("WorkspaceNotFoundError")
            ELSE IF NotOwner(view, workspace_id, c.user_id)
            THEN Failed("WorkspaceNotOwnedByUserError")
            ELSE Passed(t.local)
      [] stmt = "count_resources" ->
            IF ofRepo /\ count_resources(view, workspace_id).repos >= MaxReposPerWorkspace
            THEN Failed("RepoLimitExceeded")
            ELSE IF ~ofRepo /\ count_resources(view, workspace_id).vaults >= MaxVaultsPerWorkspace
            THEN Failed("VaultLimitExceeded")
            ELSE Passed(t.local)
      [] stmt = "name_exists" ->
            LET taken(exclude_id) ==
                    IF ofRepo
                    THEN repo_name_exists_in_workspace(view, workspace_id, Val(c.name), exclude_id)
                    ELSE vault_name_exists_in_workspace(view, workspace_id, Val(c.name), exclude_id)
                duplicate == IF ofRepo THEN "DuplicateRepoNameError"
                             ELSE "DuplicateVaultNameError"
            IN  IF creating
                THEN IF taken(None) THEN Failed(duplicate) ELSE Passed(t.local)
                ELSE IF ~(Truthy(c.name) /\ Val(c.name) # held.name)
                THEN Passed(t.local)
                ELSE IF taken(Some(c.target)) THEN Failed(duplicate)
                ELSE Passed(Some([held EXCEPT !.name = Val(c.name)]))
      [] stmt = "save_repo" ->
            IF creating
            THEN IF ~(CreateRepoKwargs \subseteq RepoFields) THEN Failed("TypeError")
                 ELSE IF Repo_post_init(Val(c.name), somePath, None) # "ok"
                 THEN Failed(Repo_post_init(Val(c.name), somePath, None))
                 ELSE Saved("repos",
                            save_repo(view,
                                [id |-> t.new_id, name |-> Val(c.name), path |-> somePath,
                                 workspace_id |-> workspace_id, remote_url |-> None,
                                 created_at |-> Now(view), updated_at |-> Now(view)]),
                            t.new_id)
            ELSE IF "update_timestamp" \notin RepoMethods THEN Failed("AttributeError")
            ELSE Saved("repos", save_repo(view, held), held.id)
      [] stmt = "save_vault" ->
            IF creating
            THEN IF ~(CreateVaultKwargs \subseteq VaultFields) THEN Failed("TypeError")
                 ELSE IF Vault_post_init(Val(c.name), somePath) # "ok"
                 THEN Failed(Vault_post_init(Val(c.name), somePath))
                 ELSE Saved("vaults",
                            save_vault(view,
                                [id |-> t.new_id, name |-> Val(c.name), path |-> somePath,
                                 workspace_id |-> workspace_id,
                                 created_at |-> Now(view), updated_at |-> Now(view)]),
                            t.new_id)
            ELSE IF "update_timestamp" \notin VaultMethods THEN Failed("AttributeError")
            ELSE Saved("vaults", save_vault(view, held), held.id)

\* a task before its first statement; mine is the session its __aenter__
\* opened, used the sessions its statements went through, committed the
\* session its commit() committed (0: skipped, -1: not reached) and closed
\* the session its __aexit__ closed
NewTask(c, uow_id, new_id) ==
    [call |-> c, uow |-> uow_id, new_id |-> new_id, pc |-> "start", at |-> 0, err |-> "",
     mine |-> 0, local |-> None, used |-> {}, committed |-> -1, closed |-> 0]

\* SQLAlchemyUnitOfWork.__init__: no session, no repository attributes
IdleUoW == [session |-> 0, bound |-> 0]

\* Up to the first await: the constructor of create_user_profile, then
\* __aenter__, which makes a session and binds the repositories to it
TaskEnter ==
    \E i \in DOMAIN loop.tasks :
        LET t == loop.tasks[i]
            c == t.call
            ofUser == c.op = "create_user_profile"
            sid == Len(loop.sessions) + 1
        IN  /\ t.pc = "start"
            /\ loop' =
                 IF ofUser /\ UserProfile_post_init(Val(c.username), Val(c.email)) # "ok"
                 THEN [loop EXCEPT !.tasks[i].pc = "done", !.tasks[i].err = "ValueError"]
                 ELSE [loop EXCEPT
                          !.tasks[i].pc = "body", !.tasks[i].at = 1, !.tasks[i].mine = sid,
                          !.tasks[i].local =
                              IF ofUser
                              THEN Some([id |-> t.new_id, username |-> Val(c.username),
                                         email |-> Val(c.email), preferences |-> {},
                                         created_at |-> Now(db), updated_at |-> Now(db)])
                              ELSE None,
                          !.uows[t.uow] = [session |-> sid, bound |-> sid],
                          !.sessions = Append(@, [open |-> TRUE, pending |-> EmptyDB])]
            /\ UNCHANGED <<db, nextId, lastOp, uow, call>>

\* A repository call through self._uow.<repository>, which is bound to the
\* session of the latest __aenter__ on the instance.  An INSERT waits while
\* another session holds an uncommitted row with the same unique key and
\* raises IntegrityError when a committed row has it.
TaskStatement ==
    \E i \in DOMAIN loop.tasks :
        LET t == loop.tasks[i]
            stmt == ServiceBody(t.call.op)[t.at]
            sid == loop.uows[t.uow].bound
            session == loop.sessions[sid]
        IN  /\ t.pc = "body"
            /\ stmt # "commit"
            /\ \E r \in {RunStatement(stmt, t, SessionView(db, session.pending))} :
                 LET writes == r.write # None
                     table == Val(r.write)[1]
                     row == Val(r.write)[2]
                     SameKey(other) ==
                         /\ other.id # row.id
                         /\ \E col \in UniqueColumns(table) : other[col] = row[col]
                     violates == writes /\ \E other \in db[table] : SameKey(other)
                     waits ==
                         /\ writes
                         /\ ~violates
                         /\ \E j \in DOMAIN loop.sessions \ {sid} :
                               \E other \in loop.sessions[j].pending[table] : SameKey(other)
                     err == IF violates THEN "IntegrityError" ELSE r.err
                     pending ==
                         IF writes /\ ~violates
                         THEN [session.pending EXCEPT
                                  ![table] = {x \in @ : x.id # row.id} \cup {row}]
                         ELSE session.pending
                 IN  /\ ~waits
                     /\ loop' = [loop EXCEPT
                                   !.sessions[sid] = [open |-> TRUE, pending |-> pending],
                                   !.tasks[i] =
                                       [t EXCEPT !.local = r.local, !.err = err,
                                                 !.used = @ \cup {sid},
                                                 !.pc = IF err = "" THEN "body" ELSE "aexit",
                                                 !.at = IF err = "" THEN @ + 1 ELSE @]]
            /\ UNCHANGED <<db, nextId, lastOp, uow, call>>

\* "if self._session: await self._session.commit()"
TaskCommit ==
    \E i \in DOMAIN loop.tasks :
        LET t == loop.tasks[i]
            sid == loop.uows[t.uow].session
        IN  /\ t.pc = "body"
            /\ ServiceBody(t.call.op)[t.at] = "commit"
            /\ IF sid = 0
               THEN /\ db' = db
                    /\ loop' = [loop EXCEPT !.tasks[i].pc = "aexit", !.tasks[i].committed = 0]
               ELSE /\ db' = SessionView(db, loop.sessions[sid].pending)
                    /\ loop' = [loop EXCEPT !.tasks[i].pc = "aexit",
                                            !.tasks[i].committed = sid,
                                            !.sessions[sid].pending = EmptyDB]
            /\ UNCHANGED <<nextId, lastOp, uow, call>>

\* "if self._session: await self._session.__aexit__(...)": the session is
\* closed, which drops what it has not committed
TaskExit ==
    \E i \in DOMAIN loop.tasks :
        LET t == loop.tasks[i]
            sid == loop.uows[t.uow].session
        IN  /\ t.pc = "aexit"
            /\ loop' = IF sid = 0
                       THEN [loop EXCEPT !.tasks[i].pc = "done"]
                       ELSE [loop EXCEPT !.tasks[i].pc = "clear", !.tasks[i].closed = sid,
                                         !.sessions[sid] = [open |-> FALSE, pending |-> EmptyDB]]
            /\ UNCHANGED <<db, nextId, lastOp, uow, call>>

\* "self._session = None", after the await of the close
TaskClear ==
    \E i \in DOMAIN loop.tasks :
        /\ loop.tasks[i].pc = "clear"
        /\ loop' = [loop EXCEPT !.tasks[i].pc = "done",
                                !.uows[loop.tasks[i].uow].session = 0]
        /\ UNCHANGED <<db, nextId, lastOp, uow, call>>

NextTasks ==
    \/ TaskEnter
    \/ TaskStatement
    \/ TaskCommit
    \/ TaskExit
    \/ TaskClear

\* alice (1) owns one workspace less than the limit; workspace 11 holds repo
\* 101 and vault 111, both "proj1"
ConcurrentStore == Seed(MaxWorkspacesPerUser - 1, 1, 1)

\* the calls the two tasks make: creates and renames that aim at the same
\* username, email, owner or name in a workspace
ConcurrentCalls ==
    LET Call(op, user_id, username, email, workspace_id, name, target) ==
            [op |-> op, user_id |-> user_id, username |-> username, email |-> email,
             workspace_id |-> workspace_id, name |-> name, target |-> target]
    IN  { Call("create_user_profile", 0, Some(carol), Some(carolMail), 0, None, 0),
          Call("create_user_profile", 0, Some(<<"d","a","v","e">>), Some(carolMail), 0, None, 0),
          Call("update_user_profile", 2, Some(carol), None, 0, None, 0),
          Call("create_workspace", 1, None, None, 0, Some(labName), 0),
          Call("create_repo", 1, None, None, 11, Some(proj2), 0),
          Call("update_repo", 1, None, None, 0, Some(proj2), 101),
          Call("create_vault", 1, None, None, 11, Some(proj2), 0),
          Call("update_vault", 1, None, None, 0, Some(proj2), 111) }

\* two tasks, each with a unit of work of its own
InitConcurrent ==
    /\ db = ConcurrentStore
    /\ nextId = FirstNewId
    /\ lastOp = NoOp
    /\ uow = UoW_init(db)
    /\ call = NoCall
    /\ \E c1 \in ConcurrentCalls, c2 \in ConcurrentCalls :
          loop = [tasks |-> <<NewTask(c1, 1, 9001), NewTask(c2, 2, 9002)>>,
                  uows |-> <<IdleUoW, IdleUoW>>, sessions |-> <<>>]

SpecConcurrent == InitConcurrent /\ [][NextTasks]_vars

\* two tasks on the one unit of work ApplicationService hands to every handler
InitSharedUow ==
    /\ db = ConcurrentStore
    /\ nextId = FirstNewId
    /\ lastOp = NoOp
    /\ uow = UoW_init(db)
    /\ call = NoCall
    /\ \E c1 \in ConcurrentCalls, c2 \in ConcurrentCalls :
          loop = [tasks |-> <<NewTask(c1, 1, 9001), NewTask(c2, 1, 9002)>>,
                  uows |-> <<IdleUoW>>, sessions |-> <<>>]

SpecSharedUow == InitSharedUow /\ [][NextTasks]_vars

(***************************************************************************)
(* Properties                                                              *)
(***************************************************************************)
MutatingOps ==
    {"create_user_profile", "update_user_profile", "delete_user_profile",
     "create_workspace", "update_workspace", "delete_workspace",
     "create_repo", "update_repo", "delete_repo", "sync_with_remote",
     "create_vault", "update_vault", "delete_vault", "lock_vault", "unlock_vault"}

\* the error kinds a handler body raises
ErrorKinds ==
    {"UserProfileNotFoundError", "UsernameAlreadyExistsError", "EmailAlreadyExistsError",
     "WorkspaceNotFoundError", "WorkspaceNotOwnedByUserError", "WorkspaceLimitExceeded",
     "RepoNotFoundError", "DuplicateRepoNameError", "RepoLimitExceeded",
     "VaultNotFoundError", "DuplicateVaultNameError", "VaultLimitExceeded",
     "ValueError", "TypeError", "AttributeError"}

\* C1: a service call that ends by raising an error leaves the committed
\* store exactly as it was before the call (nothing written in the aborted
\* scope is visible afterwards), and what the caller receives is the error
\* kind raised inside the scope, never a success.
C1_ErrorLeavesStoreUnchanged ==
    [][lastOp'.res # "ok" => /\ db' = db
                             /\ lastOp'.res \in ErrorKinds]_vars

\* C1 witness: create_workspace raised inside its scope (the constructor's
\* ValueError, after the user and limit checks read the store)
C1_Witness ==
    /\ lastOp.op = "create_workspace"
    /\ lastOp.res = "ValueError"
    /\ db.user_profiles # {}

\* C2: for every stored workspace, repo and vault and every user_id other
\* than the owner of the (parent) workspace, each of update_workspace,
\* delete_workspace, create_repo, update_repo, delete_repo, sync_with_remote,
\* create_vault, update_vault, delete_vault, lock_vault and unlock_vault
\* fails with WorkspaceNotOwnedByUserError and leaves the store unchanged.
C2_NonOwnerIsRejected ==
    LET Rejected(r) == r.res = "WorkspaceNotOwnedByUserError" /\ r.db = db
        ParentOwnedByOther(workspace_id, user_id) ==
            \E w \in db.workspaces : w.id = workspace_id /\ w.user_profile_id # user_id
    IN
    \A user_id \in UserIdInputs :
        /\ \A w \in db.workspaces : w.user_profile_id # user_id =>
              /\ \A name \in OptionsOf(WorkspaceNameInputs), settings \in MapInputs :
                    Rejected(update_workspace(db, w.id, user_id, name, settings))
              /\ Rejected(delete_workspace(db, w.id, user_id))
              /\ \A name \in ResourceNameInputs \cup {slashName}, path \in OptionsOf({somePath}),
                    metadata \in MapInputs :
                    /\ Rejected(create_repo(db, nextId, w.id, user_id, name, path, None,
                                            metadata))
                    /\ Rejected(create_vault(db, nextId, w.id, user_id, name, somePath,
                                             metadata))
        /\ \A r \in db.repos : ParentOwnedByOther(r.workspace_id, user_id) =>
              /\ \A name \in OptionsOf(ResourceNameInputs), path \in OptionsOf({somePath}),
                    metadata \in MapInputs :
                    Rejected(update_repo(db, r.id, user_id, name, path, None, metadata))
              /\ Rejected(delete_repo(db, r.id, user_id))
              /\ Rejected(sync_with_remote(db, r.id, user_id))
        /\ \A v \in db.vaults : ParentOwnedByOther(v.workspace_id, user_id) =>
              /\ \A name \in OptionsOf(ResourceNameInputs), path \in OptionsOf({somePath}),
                    metadata \in MapInputs :
                    Rejected(update_vault(db, v.id, user_id, name, path, metadata))
              /\ Rejected(delete_vault(db, v.id, user_id))
              /\ Rejected(lock_vault(db, v.id, user_id))
              /\ Rejected(unlock_vault(db, v.id, user_id))

\* C2 witness: lock_vault was called on a stored vault by a user who does not
\* own its workspace and was refused
C2_Witness ==
    /\ lastOp.op = "lock_vault"
    /\ lastOp.res = "WorkspaceNotOwnedByUserError"
    /\ \E v \in db.vaults : v.id \in VaultIdInputs

\* C3: create_user_profile with well-formed arguments whose username is that
\* of a stored profile fails with UsernameAlreadyExistsError whatever the
\* email, and with a free username and the email of a stored profile fails
\* with EmailAlreadyExistsError; in both cases the store is unchanged.
C3_DuplicateUsernameOrEmail ==
    \A username \in {alice, bob, carol}, email \in {aliceMail, bobMail, carolMail},
       preferences \in MapInputs :
        LET r == create_user_profile(db, nextId, username, email, preferences)
            usernameStored == \E u \in db.user_profiles : u.username = username
            emailStored == \E u \in db.user_profiles : u.email = email
        IN  /\ usernameStored =>
                  r.res = "UsernameAlreadyExistsError" /\ r.db = db
            /\ (~usernameStored /\ emailStored) =>
                  r.res = "EmailAlreadyExistsError" /\ r.db = db

\* C3 witness: a create_user_profile whose username was taken and whose email
\* was free has been refused
C3_Witness ==
    /\ lastOp.op = "create_user_profile"
    /\ lastOp.note = "username taken, email free"
    /\ lastOp.res = "UsernameAlreadyExistsError"

\* C4: create_workspace with a well-formed name and type succeeds and stores
\* the workspace whenever the (existing) user owns fewer than 50 workspaces,
\* fails with WorkspaceLimitExceeded and leaves the store unchanged when the
\* user owns 50, and no user ever owns more than 50 workspaces.
C4_WorkspaceLimit ==
    \A u \in db.user_profiles :
        LET owned == Cardinality({w \in db.workspaces : w.user_profile_id = u.id})
        IN  /\ owned <= MaxWorkspacesPerUser
            /\ \A workspace_type \in WorkspaceTypes, settings \in MapInputs :
                  LET r == create_workspace(db, nextId, u.id, labName, workspace_type, settings)
                      row == [id |-> nextId, name |-> labName, description |-> None,
                              user_profile_id |-> u.id, workspace_type |-> workspace_type,
                              settings |-> IF IsNone(settings) THEN {} ELSE Val(settings),
                              shared_resources |-> {},
                              created_at |-> Now(db), updated_at |-> Now(db)]
                  IN  IF owned < MaxWorkspacesPerUser
                      THEN /\ r.res = "ok"
                           /\ r.db = [db EXCEPT !.workspaces = @ \cup {row}]
                      ELSE /\ r.res = "WorkspaceLimitExceeded"
                           /\ r.db = db

\* C4 witness: the 50th workspace of a user has just been created
C4_Witness ==
    /\ lastOp.op = "create_workspace"
    /\ lastOp.res = "ok"
    /\ \E u \in db.user_profiles :
          /\ Cardinality({w \in db.workspaces : w.user_profile_id = u.id}) = MaxWorkspacesPerUser
          /\ \E w \in db.workspaces : w.user_profile_id = u.id /\ w.id \in NewIds

\* C5: create_repo by the owner with the name of a repo of the same workspace
\* fails with DuplicateRepoNameError and leaves the store unchanged, and
\* create_repo with that name in another workspace of the caller that is below
\* the limit and has no repo of that name succeeds and stores the new repo.
C5_RepoNameUniquePerWorkspaceOnly ==
    \A r0 \in db.repos, w0 \in db.workspaces : w0.id = r0.workspace_id =>
        /\ Cardinality({x \in db.repos : x.workspace_id = w0.id}) < MaxReposPerWorkspace =>
              LET r == create_repo(db, nextId, w0.id, w0.user_profile_id, r0.name,
                                   Some(somePath), None, None)
              IN  r.res = "DuplicateRepoNameError" /\ r.db = db
        /\ \A w1 \in db.workspaces :
              (/\ w1.id # w0.id
               /\ w1.user_profile_id = w0.user_profile_id
               /\ Cardinality({x \in db.repos : x.workspace_id = w1.id}) < MaxReposPerWorkspace
               /\ ~\E x \in db.repos : x.workspace_id = w1.id /\ x.name = r0.name)
              => LET r == create_repo(db, nextId, w1.id, w0.user_profile_id, r0.name,
                                      Some(somePath), None, None)
                 IN  /\ r.res = "ok"
                     /\ \E x \in r.db.repos :
                           x.id = nextId /\ x.name = r0.name /\ x.workspace_id = w1.id

\* C6: create_repo by the owner fails with RepoLimitExceeded, store unchanged,
\* when the workspace holds 100 repos, and create_vault fails with
\* VaultLimitExceeded when it holds 20 vaults; below its own limit neither
\* call raises its limit error whatever the other count is; and no workspace
\* ever holds more than 100 repos or more than 20 vaults.
C6_ResourceLimits ==
    \A w \in db.workspaces :
        LET nRepos == Cardinality({r \in db.repos : r.workspace_id = w.id})
            nVaults == Cardinality({v \in db.vaults : v.workspace_id = w.id})
        IN  /\ nRepos <= MaxReposPerWorkspace
            /\ nVaults <= MaxVaultsPerWorkspace
            /\ \A name \in ResourceNameInputs, metadata \in MapInputs :
                  LET r == create_repo(db, nextId, w.id, w.user_profile_id, name,
                                       Some(somePath), None, metadata)
                      v == create_vault(db, nextId, w.id, w.user_profile_id, name,
                                        somePath, metadata)
                  IN  /\ IF nRepos >= MaxReposPerWorkspace
                         THEN r.res = "RepoLimitExceeded" /\ r.db = db
                         ELSE r.res # "RepoLimitExceeded"
                      /\ IF nVaults >= MaxVaultsPerWorkspace
                         THEN v.res = "VaultLimitExceeded" /\ v.db = db
                         ELSE v.res # "VaultLimitExceeded"

\* C6 witness: create_repo was refused on a workspace that holds 100 repos
\* and fewer than 20 vaults
C6_Witness ==
    /\ lastOp.op = "create_repo"
    /\ lastOp.res = "RepoLimitExceeded"
    /\ \E w \in db.workspaces :
          /\ Cardinality({r \in db.repos : r.workspace_id = w.id}) = MaxReposPerWorkspace
          /\ Cardinality({v \in db.vaults : v.workspace_id = w.id}) < MaxVaultsPerWorkspace

\* C7: delete_user_profile of a stored user succeeds; afterwards
\* get_user_profile fails with UserProfileNotFoundError and get_workspace on
\* each workspace the user owned fails with WorkspaceNotFoundError; no
\* workspace, repo or vault of the user remains, and the rows of the other
\* users are exactly as before.
C7_DeleteUserCascades ==
    \A u \in db.user_profiles :
        LET r == delete_user_profile(db, u.id)
            owned == {w \in db.workspaces : w.user_profile_id = u.id}
            ownedIds == {w.id : w \in owned}
        IN  /\ r.res = "ok"
            /\ get_user_profile(r.db, u.id).res = "UserProfileNotFoundError"
            /\ \A w \in owned, caller \in {None, Some(u.id)} :
                  get_workspace(r.db, w.id, caller).res = "WorkspaceNotFoundError"
            /\ r.db.user_profiles = db.user_profiles \ {u}
            /\ r.db.workspaces = db.workspaces \ owned
            /\ r.db.repos = {x \in db.repos : x.workspace_id \notin ownedIds}
            /\ r.db.vaults = {x \in db.vaults : x.workspace_id \notin ownedIds}

\* C7 witness: a user who owned workspaces holding repos and vaults has been
\* deleted, and another user's workspace, repo and vault are still stored
C7_Witness ==
    /\ lastOp.op = "delete_user_profile"
    /\ lastOp.res = "ok"
    /\ lastOp.note = "owned workspaces with repos and vaults"
    /\ db.workspaces # {}
    /\ db.repos # {}
    /\ db.vaults # {}

\* C8: delete_workspace by the owner succeeds whether or not the workspace
\* holds repos or vaults; afterwards get_repo / get_vault on each repo and
\* vault it held fails with RepoNotFoundError / VaultNotFoundError, and the
\* repos and vaults of the other workspaces are exactly as before.
C8_DeleteWorkspaceCascades ==
    \A w \in db.workspaces :
        LET r == delete_workspace(db, w.id, w.user_profile_id)
        IN  /\ r.res = "ok"
            /\ \A x \in db.repos : x.workspace_id = w.id =>
                  \A caller \in {None, Some(w.user_profile_id)} :
                     get_repo(r.db, x.id, caller).res = "RepoNotFoundError"
            /\ \A x \in db.vaults : x.workspace_id = w.id =>
                  \A caller \in {None, Some(w.user_profile_id)} :
                     get_vault(r.db, x.id, caller).res = "VaultNotFoundError"
            /\ r.db.workspaces = db.workspaces \ {w}
            /\ {x \in db.repos : x.workspace_id # w.id} \subseteq r.db.repos
            /\ {x \in db.vaults : x.workspace_id # w.id} \subseteq r.db.vaults
            /\ r.db.user_profiles = db.user_profiles

\* C8 witness: a workspace that held repos and vaults has been deleted by its
\* owner, and repos and vaults of other workspaces are still stored
C8_Witness ==
    /\ lastOp.op = "delete_workspace"
    /\ lastOp.res = "ok"
    /\ lastOp.note = "has repos and vaults"
    /\ db.repos # {}
    /\ db.vaults # {}

\* C9: lock_vault by the owner on a stored vault succeeds and leaves its
\* is_locked true, a second lock_vault succeeds as well with is_locked still
\* true, and unlock_vault on an unlocked vault succeeds and leaves is_locked
\* false.
C9_LockIsIdempotent ==
    \A v \in db.vaults, w \in db.workspaces : w.id = v.workspace_id =>
        LET IsLocked(d) == \E x \in d.vaults : x.id = v.id /\ x.is_locked
            once == lock_vault(db, v.id, w.user_profile_id)
            twice == lock_vault(once.db, v.id, w.user_profile_id)
            unlocked == unlock_vault(db, v.id, w.user_profile_id)
        IN  /\ once.res = "ok" /\ IsLocked(once.db)
            /\ twice.res = "ok" /\ IsLocked(twice.db)
            /\ ~v.is_locked => unlocked.res = "ok" /\ ~IsLocked(unlocked.db)

\* C10: create_vault by the owner, with a name free in a workspace below the
\* limit, stores a vault whose is_locked is false; and in every step the
\* stored is_locked of a vault changes only if the step is a successful
\* lock_vault (to true) or unlock_vault (to false).
C10_LockChangesOnlyByLockUnlock ==
    /\ [](\A w \in db.workspaces, name \in ResourceNameInputs :
            (/\ Cardinality({x \in db.vaults : x.workspace_id = w.id}) < MaxVaultsPerWorkspace
             /\ ~\E x \in db.vaults : x.workspace_id = w.id /\ x.name = name)
            => LET r == create_vault(db, nextId, w.id, w.user_profile_id, name, somePath, None)
               IN  /\ r.res = "ok"
                   /\ \E x \in r.db.vaults : x.id = nextId /\ ~x.is_locked)
    /\ [][\A v \in db.vaults, x \in db'.vaults :
            (x.id = v.id /\ x.is_locked # v.is_locked)
            => /\ lastOp'.res = "ok"
               /\ \/ lastOp'.op = "lock_vault" /\ x.is_locked
                  \/ lastOp'.op = "unlock_vault" /\ ~x.is_locked]_vars

\* C11: update_user_profile on a stored profile with only preferences
\* supplied succeeds, leaves username and email as they were and makes the
\* stored preferences exactly the supplied map (replace, not merge); no other
\* row changes.
C11_PreferencesReplaced ==
    \A u \in db.user_profiles, preferences \in {{}, darkTheme, {<<"lang", "en">>}} :
        LET r == update_user_profile(db, u.id, None, None, Some(preferences))
        IN  /\ r.res = "ok"
            /\ r.db = [db EXCEPT !.user_profiles =
                          (@ \ {u}) \cup {[u EXCEPT !.preferences = preferences]}]

\* C12: get_workspace, get_repo, get_vault, list_workspace_repos and
\* list_workspace_vaults called without a user_id return the stored resource
\* (the workspace's repos / vaults for the lists) whoever owns it, and called
\* with a user_id other than the owner of the (parent) workspace fail with
\* WorkspaceNotOwnedByUserError; the store is unchanged either way.
C12_OwnershipCheckedOnlyWithUserId ==
    LET Gives(r, value) == r.res = "ok" /\ r.ret = Some(value) /\ r.db = db
        Refused(r) == r.res = "WorkspaceNotOwnedByUserError" /\ r.db = db
        OwnerOf(workspace_id) ==
            (CHOOSE w \in db.workspaces : w.id = workspace_id).user_profile_id
        Others(workspace_id) == {u \in UserIdInputs : u # OwnerOf(workspace_id)}
    IN
    /\ \A w \in db.workspaces :
          /\ Gives(get_workspace(db, w.id, None), w)
          /\ Gives(list_workspace_repos(db, w.id, None),
                   {Repo_entity(x) : x \in {y \in db.repos : y.workspace_id = w.id}})
          /\ Gives(list_workspace_vaults(db, w.id, None),
                   {Vault_entity(x) : x \in {y \in db.vaults : y.workspace_id = w.id}})
          /\ \A u \in Others(w.id) :
                /\ Refused(get_workspace(db, w.id, Some(u)))
                /\ Refused(list_workspace_repos(db, w.id, Some(u)))
                /\ Refused(list_workspace_vaults(db, w.id, Some(u)))
    /\ \A x \in db.repos :
          /\ Gives(get_repo(db, x.id, None), Repo_entity(x))
          /\ \A u \in Others(x.workspace_id) : Refused(get_repo(db, x.id, Some(u)))
    /\ \A x \in db.vaults :
          /\ Gives(get_vault(db, x.id, None), Vault_entity(x))
          /\ \A u \in Others(x.workspace_id) : Refused(get_vault(db, x.id, Some(u)))

\* C12 witness: list_workspace_repos was called without a user_id on a
\* workspace that holds repos and returned
C12_Witness ==
    /\ lastOp.op = "list_workspace_repos"
    /\ lastOp.note = "no user_id"
    /\ lastOp.res = "ok"
    /\ db.repos # {}

\* C13: create_user_profile validates the fields before either uniqueness
\* check and checks the username before the email: a malformed username or
\* email is reported as the constructor's validation error even when the other
\* field collides with a stored profile, and when both the username and the
\* email are those of stored profiles the error is UsernameAlreadyExistsError.
C13_ValidationThenUsernameThenEmail ==
    \A username \in {alice, bob, carol, shortUsername},
       email \in {aliceMail, bobMail, carolMail, noTldMail}, preferences \in MapInputs :
        LET r == create_user_profile(db, nextId, username, email, preferences)
            malformed == ~validate_username(username) \/ ~validate_email(email)
            usernameStored == \E u \in db.user_profiles : u.username = username
            emailStored == \E u \in db.user_profiles : u.email = email
        IN  /\ malformed => r.res = "ValueError" /\ r.db = db
            /\ (~malformed /\ usernameStored /\ emailStored) =>
                  r.res = "UsernameAlreadyExistsError" /\ r.db = db

\* C13 witness: a create_user_profile whose username and email were both those
\* of stored profiles has been refused for the username
C13_Witness ==
    /\ lastOp.op = "create_user_profile"
    /\ lastOp.note = "username and email taken"
    /\ lastOp.res = "UsernameAlreadyExistsError"

\* C14: the committed store changes only in a commit() made inside a scope,
\* which makes it equal to what the session has written; leaving a scope,
\* normally or by an exception, leaves the committed store as it was and
\* drops the writes that were not committed; and a scope that is entered
\* sees exactly the committed store, so it sees every committed write and no
\* write of an aborted scope.
C14_OnlyCommittedWritesSurvive ==
    [][/\ (lastOp'.op = "aexit" => db' = db /\ uow'.rows = db)
       /\ (lastOp'.op = "commit" /\ uow.open => db' = uow.rows)
       /\ (lastOp'.op = "aenter" => db' = db /\ uow'.rows = db)
       /\ (db' # db => lastOp'.op = "commit" /\ uow.open)]_vars

\* C14 witness: a scope in which a user had been saved and not committed was
\* left by an exception, and the committed store does not hold that user
C14_Witness ==
    /\ lastOp.op = "aexit"
    /\ lastOp.res = "Exception"
    /\ lastOp.note = "uncommitted writes"
    /\ ~username_exists(db, carol, None)

\* C15: after the scope has been left, a call of a method of a repository
\* obtained from the unit of work, or of its commit() or rollback(), ends in
\* an error and changes neither the store nor the unit of work.
C15_UseAfterScopeIsAnError ==
    [][(/\ uow.bound
        /\ ~uow.open
        /\ lastOp'.op \in {"save", "username_exists", "commit", "rollback"})
       => /\ lastOp'.res # "ok"
          /\ db' = db
          /\ uow' = uow]_vars

\* C16: inside a unit-of-work scope, for each of the four aggregate types,
\* save(e) succeeds and get(e.id) then returns an entity equal to e in every
\* field, whether e is new or replaces a stored row.
C16_SaveThenGetReturnsEntity ==
    uow.open =>
        /\ \A e \in UowUserProfiles :
              LET saved == save_user_profile(uow.rows, e)
              IN  saved.res = "ok" /\ get_user_profile_entity(saved.s, e.id) = Some(e)
        /\ \A e \in UowWorkspaces :
              Exists(uow.rows.user_profiles, e.user_profile_id) =>
                  LET saved == save_workspace(uow.rows, e)
                  IN  saved.res = "ok" /\ get_workspace_entity(saved.s, e.id) = Some(e)
        /\ \A e \in UowRepos :
              Exists(uow.rows.workspaces, e.workspace_id) =>
                  LET saved == save_repo(uow.rows, e)
                  IN  saved.res = "ok" /\ get_repo_entity(saved.s, e.id) = Some(e)
        /\ \A e \in UowVaults :
              Exists(uow.rows.workspaces, e.workspace_id) =>
                  LET saved == save_vault(uow.rows, e)
                  IN  saved.res = "ok" /\ get_vault_entity(saved.s, e.id) = Some(e)

\* C18: in every store reached by create and delete calls, get_workspace_stats
\* of a stored workspace returns the numbers of stored repos and vaults of that
\* workspace, the GetWorkspaceStatsQuery result carries their sum as
\* total_resources, a workspace that is not stored gives WorkspaceNotFoundError,
\* and after one create_repo by the owner into a workspace without resources
\* the stats are {repos: 1, vaults: 0}.
C18_StatsCountStoredRows ==
    /\ \A workspace_id \in WorkspaceIdInputs \cup Ids(db.workspaces) :
          LET r == get_workspace_stats(db, workspace_id)
              h == GetWorkspaceStatsHandler_handle(db, workspace_id)
              repos == Cardinality({x \in db.repos : x.workspace_id = workspace_id})
              vaults == Cardinality({x \in db.vaults : x.workspace_id = workspace_id})
          IN  IF workspace_id \in Ids(db.workspaces)
              THEN /\ r.res = "ok" /\ r.db = db
                   /\ Val(r.ret) = [repos |-> repos, vaults |-> vaults]
                   /\ h.res = "ok" /\ h.db = db
                   /\ Val(h.ret).repo_count = repos
                   /\ Val(h.ret).vault_count = vaults
                   /\ Val(h.ret).total_resources = repos + vaults
              ELSE /\ r.res = "WorkspaceNotFoundError" /\ r.db = db
                   /\ h.res = "WorkspaceNotFoundError" /\ h.db = db
    /\ \A w \in db.workspaces :
          count_resources(db, w.id) = [repos |-> 0, vaults |-> 0] =>
              LET created == create_repo(db, nextId, w.id, w.user_profile_id, proj1,
                                         Some(somePath), None, None)
              IN  get_workspace_stats(created.db, w.id).ret = Some([repos |-> 1, vaults |-> 0])

\* C17: CommandBus.execute and QueryBus.execute look the handler up by the exact
\* type of the object.  For a type that ApplicationService wired they invoke
\* the one handler registered for it, once, and return what it returns; for
\* any other type (a subclass of a wired command, an object of the other bus)
\* they raise ValueError, invoke no handler and leave the store as it is.
\* Every command and query class has a registered handler.
C17_BusDispatchesByExactType ==
    /\ CommandTypes \subseteq DOMAIN ApplicationService_commands
    /\ QueryTypes \subseteq DOMAIN ApplicationService_queries
    /\ \A i \in DOMAIN CommandBusInputs :
          LET c == CommandBusInputs[i]
              r == CommandBus_execute(ApplicationService_commands, db, nextId, c)
          IN  IF c.type \in CommandTypes
              THEN \E j \in DOMAIN CommandWiring :
                      /\ CommandWiring[j][1] = c.type
                      /\ r.invoked = <<CommandWiring[j][2]>>
                      /\ LET h == CommandHandler_handle(CommandWiring[j][2], db, nextId, c)
                         IN  r.res = h.res /\ r.ret = h.ret /\ r.db = h.db
              ELSE r.res = "ValueError" /\ r.invoked = <<>> /\ r.db = db
    /\ \A i \in DOMAIN QueryBusInputs :
          LET q == QueryBusInputs[i]
              r == QueryBus_execute(ApplicationService_queries, db, q)
          IN  IF q.type \in QueryTypes
              THEN \E j \in DOMAIN QueryWiring :
                      /\ QueryWiring[j][1] = q.type
                      /\ r.invoked = <<QueryWiring[j][2]>>
                      /\ LET h == QueryHandler_handle(QueryWiring[j][2], db, q)
                         IN  r.res = h.res /\ r.ret = h.ret /\ r.db = h.db
              ELSE r.res = "ValueError" /\ r.invoked = <<>> /\ r.db = db
    /\ lastOp.op \in CommandTypes => lastOp.note # "no command handler"
    /\ lastOp.op \in QueryTypes => lastOp.note # "no query handler"
    /\ lastOp.note \in {"no command handler", "no query handler"} => lastOp.res = "ValueError"

\* a command was dispatched and stored a row, and then an object of a type
\* without a handler was refused
C17_Witness ==
    /\ lastOp.op = subclassCommand.type
    /\ lastOp.res = "ValueError"
    /\ lastOp.note = "no command handler"
    /\ nextId # FirstNewId

C20_RemoteUrlAccepted ==
    [][LET Acceptable(url) ==
               \/ \E prefix \in { <<"h","t","t","p",":","/","/">>,
                                  <<"h","t","t","p","s",":","/","/">>,
                                  <<"g","i","t",":","/","/">>, <<"s","s","h",":","/","/">>,
                                  <<"g","i","t","@">> } :
                     Len(url) >= Len(prefix) /\ SubSeq(url, 1, Len(prefix)) = prefix
               \/ \E at \in 2..Len(url), colon \in 4..(Len(url) - 1) :
                     /\ url[at] = "@"
                     /\ url[colon] = ":"
                     /\ at + 1 < colon
                     /\ url[1] # "/"
       IN  /\ call.res = "not called" /\ call'.res # "not called" =>
                 IF Acceptable(Val(call.args[1]))
                 THEN /\ call'.res = "ok"
                      /\ Val(call'.obj).remote_url = call.args[1]
                 ELSE /\ call'.res = "ValueError"
                      /\ call'.msg = "Invalid remote URL"
                      /\ call'.obj = None
           /\ call'.fn = "update_remote_url" =>
                 IF Acceptable(Val(call.args[2]))
                 THEN /\ call'.res = "ok"
                      /\ Val(call'.obj).remote_url = call.args[2]
                 ELSE /\ call'.res = "ValueError"
                      /\ call'.msg = "Invalid remote URL"
                      /\ call'.obj = call.obj]_vars

\* C21: sync_with_remote by the owner on a stored repo succeeds and sets only
\* last_synced, to the time of the call: the repo's id, name, path,
\* remote_url, metadata and workspace_id, every other repo and every other
\* table are as before; on an absent repo it fails with RepoNotFoundError.
C21_SyncUpdatesOnlyLastSynced ==
    /\ \A r \in db.repos, w \in db.workspaces : w.id = r.workspace_id =>
          LET synced == sync_with_remote(db, r.id, w.user_profile_id)
          IN  /\ synced.res = "ok"
              /\ \E x \in synced.db.repos :
                    /\ x.id = r.id
                    /\ x.last_synced = Some(Now(db))
                    /\ x.name = r.name /\ x.path = r.path /\ x.remote_url = r.remote_url
                    /\ x.meta_data = r.meta_data /\ x.workspace_id = r.workspace_id
                    /\ synced.db = [db EXCEPT !.repos = (@ \ {r}) \cup {x}]
    /\ \A repo_id \in RepoIdInputs, user_id \in CallerIdInputs :
          ~Exists(db.repos, repo_id) =>
              LET absent == sync_with_remote(db, repo_id, user_id)
              IN  absent.res = "RepoNotFoundError" /\ absent.db = db

\* C22: in every state reached by create_user_profile, update_user_profile
\* and delete_user_profile calls no two stored profiles share a username or
\* an email; update_user_profile to the username (email) of a different
\* stored profile fails with UsernameAlreadyExistsError
\* (EmailAlreadyExistsError) and leaves the store unchanged; and supplying
\* the profile's own username and email is not reported as a conflict.
C22_UsernamesAndEmailsStayUnique ==
    /\ \A u, v \in db.user_profiles :
          u.id # v.id => u.username # v.username /\ u.email # v.email
    /\ \A u, v \in db.user_profiles, preferences \in MapInputs : u.id # v.id =>
          /\ \A email \in {None, Some(u.email), Some(v.email), Some(carolMail)} :
                LET r == update_user_profile(db, u.id, Some(v.username), email, preferences)
                IN  r.res = "UsernameAlreadyExistsError" /\ r.db = db
          /\ \A username \in {None, Some(u.username), Some(<<"d", "a", "v", "e">>)} :
                LET r == update_user_profile(db, u.id, username, Some(v.email), preferences)
                IN  r.res = "EmailAlreadyExistsError" /\ r.db = db
    /\ \A u \in db.user_profiles, preferences \in MapInputs :
          \A username \in {None, Some(u.username)}, email \in {None, Some(u.email)} :
             update_user_profile(db, u.id, username, email, preferences).res
                \notin {"UsernameAlreadyExistsError", "EmailAlreadyExistsError"}

\* C22 witness: with two profiles stored, an update_user_profile to the email
\* of the other profile has been refused
C22_Witness ==
    /\ lastOp.op = "update_user_profile"
    /\ lastOp.res = "EmailAlreadyExistsError"
    /\ Cardinality(db.user_profiles) >= 2

\* C23: create_repo and create_vault check, in this order, that the workspace
\* exists (WorkspaceNotFoundError), that the caller owns it
\* (WorkspaceNotOwnedByUserError), that the workspace is below the limit
\* (RepoLimitExceeded / VaultLimitExceeded), that the name is unused in the
\* workspace (DuplicateRepoNameError / DuplicateVaultNameError) and that the
\* entity fields are valid (validation error): the call fails with the error
\* of the first check that fails, leaving the store unchanged, and succeeds
\* when none fails.
C23_CreateChecksInFixedOrder ==
    \A workspace_id \in WorkspaceIdInputs, user_id \in CallerIdInputs,
       name \in {proj1, proj2, slashName}, path \in {somePath, <<" ">>} :
        LET Earliest(table, limit, limitError, duplicateError) ==
                IF ~\E w \in db.workspaces : w.id = workspace_id
                THEN "WorkspaceNotFoundError"
                ELSE IF \E w \in db.workspaces : w.id = workspace_id /\ w.user_profile_id # user_id
                THEN "WorkspaceNotOwnedByUserError"
                ELSE IF Cardinality({x \in table : x.workspace_id = workspace_id}) >= limit
                THEN limitError
                ELSE IF \E x \in table : x.workspace_id = workspace_id /\ x.name = name
                THEN duplicateError
                ELSE IF Contains(name, "/") \/ IsBlank(path)
                THEN "ValueError"
                ELSE "ok"
            repo == create_repo(db, nextId, workspace_id, user_id, name, Some(path), None, None)
            vault == create_vault(db, nextId, workspace_id, user_id, name, path, None)
        IN  /\ repo.res = Earliest(db.repos, 100, "RepoLimitExceeded", "DuplicateRepoNameError")
            /\ repo.res # "ok" => repo.db = db
            /\ vault.res = Earliest(db.vaults, 20, "VaultLimitExceeded", "DuplicateVaultNameError")
            /\ vault.res # "ok" => vault.db = db

\* C24: whatever the interleaving of concurrent create_workspace calls of one
\* user, and of create_repo / create_vault calls on one workspace, each in a
\* transaction of its own, the committed store never holds more than 50
\* workspaces of a user, 100 repos of a workspace or 20 vaults of a workspace.
C24_LimitsHoldUnderConcurrency ==
    /\ \A u \in db.user_profiles :
          Cardinality({w \in db.workspaces : w.user_profile_id = u.id}) <= 50
    /\ \A w \in db.workspaces :
          /\ Cardinality({r \in db.repos : r.workspace_id = w.id}) <= 100
          /\ Cardinality({v \in db.vaults : v.workspace_id = w.id}) <= 20

\* C25: whatever the interleaving of two concurrent create_user_profile or
\* update_user_profile calls that aim at the same username or the same email,
\* each in a transaction of its own, the committed store never holds two
\* profiles with one username or one email, at most one of the two calls
\* succeeds, and a call that ends with an error has written nothing.
C25_ConcurrentProfilesStayUnique ==
    LET OfProfile(t) == t.call.op \in {"create_user_profile", "update_user_profile"}
        SameTarget(a, b) ==
            \/ a.call.username # None /\ a.call.username = b.call.username
            \/ a.call.email # None /\ a.call.email = b.call.email
    IN  /\ \A u, v \in db.user_profiles :
              u.id # v.id => u.username # v.username /\ u.email # v.email
        /\ \A i, j \in DOMAIN loop.tasks :
              (/\ i # j
               /\ OfProfile(loop.tasks[i]) /\ OfProfile(loop.tasks[j])
               /\ SameTarget(loop.tasks[i], loop.tasks[j])
               /\ loop.tasks[i].pc = "done" /\ loop.tasks[j].pc = "done")
              => ~(loop.tasks[i].err = "" /\ loop.tasks[j].err = "")
        /\ \A i \in DOMAIN loop.tasks :
              LET t == loop.tasks[i]
              IN  (OfProfile(t) /\ t.pc = "done" /\ t.err # "") =>
                     IF t.call.op = "create_user_profile"
                     THEN t.new_id \notin Ids(db.user_profiles)
                     ELSE Get(db.user_profiles, t.call.user_id)
                          = Get(ConcurrentStore.user_profiles, t.call.user_id)

\* C25 witness: two create_user_profile calls for one username have both
\* passed the username check; one has committed its profile and the other was
\* stopped by the unique index
C25_Witness ==
    \E i, j \in DOMAIN loop.tasks :
        /\ i # j
        /\ loop.tasks[i].call.op = "create_user_profile"
        /\ loop.tasks[j].call.op = "create_user_profile"
        /\ loop.tasks[i].call.username = loop.tasks[j].call.username
        /\ loop.tasks[i].pc = "done" /\ loop.tasks[i].err = ""
        /\ loop.tasks[i].new_id \in Ids(db.user_profiles)
        /\ loop.tasks[j].pc = "done" /\ loop.tasks[j].err = "IntegrityError"

C27_SharedUnitOfWorkKeepsOperationsApart ==
    /\ \A i \in DOMAIN loop.tasks :
          LET t == loop.tasks[i]
          IN  /\ t.used \subseteq {t.mine}
              /\ t.committed \in {-1, t.mine}
              /\ t.closed \in {0, t.mine}
              /\ (t.pc = "done" /\ t.mine # 0) => t.closed = t.mine
    /\ (\A i \in DOMAIN loop.tasks : loop.tasks[i].pc = "done")
          => \A sid \in DOMAIN loop.sessions : ~loop.sessions[sid].open

\* C28: in every state reached by sequential service operations every stored
\* repo and vault references a stored workspace and every stored workspace a
\* stored user profile; create_workspace fails for an absent user and
\* create_repo / create_vault fail for an absent workspace, leaving the store
\* as it was, and the store left by any delete has no orphan.
C28_ReferentialIntegrity ==
    LET Referenced(s) ==
            /\ \A w \in s.workspaces : Exists(s.user_profiles, w.user_profile_id)
            /\ \A r \in s.repos : Exists(s.workspaces, r.workspace_id)
            /\ \A v \in s.vaults : Exists(s.workspaces, v.workspace_id)
        Refused(r, err) == r.res = err /\ r.db = db
    IN  /\ Referenced(db)
        /\ \A user_id \in UserIdInputs, name \in WorkspaceNameInputs,
              workspace_type \in WorkspaceTypeInputs :
              ~Exists(db.user_profiles, user_id) =>
                  Refused(create_workspace(db, nextId, user_id, name, workspace_type, None),
                          "UserProfileNotFoundError")
        /\ \A workspace_id \in WorkspaceIdInputs, user_id \in CallerIdInputs,
              name \in ResourceNameInputs :
              ~Exists(db.workspaces, workspace_id) =>
                  /\ Refused(create_repo(db, nextId, workspace_id, user_id, name,
                                         Some(somePath), None, None),
                             "WorkspaceNotFoundError")
                  /\ Refused(create_vault(db, nextId, workspace_id, user_id, name,
                                          somePath, None),
                             "WorkspaceNotFoundError")
        /\ \A user_id \in UserIdInputs : Referenced(delete_user_profile(db, user_id).db)
        /\ \A workspace_id \in WorkspaceIdInputs, user_id \in CallerIdInputs :
              Referenced(delete_workspace(db, workspace_id, user_id).db)
        /\ \A repo_id \in RepoIdInputs, user_id \in CallerIdInputs :
              Referenced(delete_repo(db, repo_id, user_id).db)
        /\ \A vault_id \in VaultIdInputs, user_id \in CallerIdInputs :
              Referenced(delete_vault(db, vault_id, user_id).db)

\* C28 witness: a workspace created by create_workspace is stored, and after
\* it a workspace holding repos and vaults has been deleted while repos and
\* vaults of other workspaces remain
C28_Witness ==
    /\ lastOp.op = "delete_workspace"
    /\ lastOp.res = "ok"
    /\ lastOp.note = "has repos and vaults"
    /\ \E w \in db.workspaces : w.id >= FirstNewId
    /\ db.repos # {}
    /\ db.vaults # {}
    /\ Cardinality(db.user_profiles) < 3

C30_IdentityAndParentNeverChange ==
    [][ LET Tables == {"user_profiles", "workspaces", "repos", "vaults"}
            Creates == {"create_user_profile", "create_workspace", "create_repo",
                        "create_vault"}
            Fresh(table) == {x \in db'[table] : ~Exists(db[table], x.id)}
        IN  /\ \A w \in db.workspaces, x \in db'.workspaces :
                  x.id = w.id => x.user_profile_id = w.user_profile_id
            /\ \A r \in db.repos, x \in db'.repos :
                  x.id = r.id => x.workspace_id = r.workspace_id
            /\ \A v \in db.vaults, x \in db'.vaults :
                  x.id = v.id => x.workspace_id = v.workspace_id
            /\ \A table \in Tables :
                  /\ \A x, y \in db'[table] : x.id = y.id => x = y
                  /\ Fresh(table) # {} =>
                        /\ lastOp'.op \in Creates
                        /\ lastOp'.res = "ok"
                        /\ Ids(Fresh(table)) = {nextId}
      ]_vars

\* C30 witness: a vault has been deleted by its owner from a store that still
\* holds a workspace made by create_workspace next to the workspaces, repos
\* and vaults it held from the start
C30_Witness ==
    /\ lastOp.op = "delete_vault"
    /\ lastOp.res = "ok"
    /\ \E w \in db.workspaces : w.id >= FirstNewId
    /\ \E w \in db.workspaces : w.id < FirstNewId
    /\ db.repos # {}
    /\ db.vaults # {}

====
